---- MODULE Spec2Model ----
(***************************************************************************)
(* Recurring-task engine of the Task Manager plugin (TaskManagerView):     *)
(* calculateNextOccurrences, calculateNextOccurrenceAfterDate and the      *)
(* load / materialization / completion handlers that drive them.           *)
(*                                                                         *)
(* Representation.  A JavaScript Date that has been through                *)
(* setHours(0,0,0,0) is a local calendar day; it is modelled as the        *)
(* number of days since 1970-01-01.  A date string "YYYY-MM-DD" is the     *)
(* triple <<y, m, d>>.  The host's zone is taken at or east of UTC, where  *)
(* new Date("YYYY-MM-DD") followed by setHours(0,0,0,0) is local midnight  *)
(* of that same calendar day and comparing a local midnight with the UTC   *)
(* midnight of an end date orders them as their calendar days.             *)
(***************************************************************************)
EXTENDS Integers, Sequences, FiniteSets, TLC

(***************************************************************************)
(* Calendar arithmetic of the JavaScript Date object                       *)
(***************************************************************************)

\* floor division for a positive divisor (TLC's \div already floors)
FloorDiv(a, b) == a \div b

\* Date.UTC / new Date(y, m-1, d) for a month already in 1..12 and any day:
\* days since 1970-01-01 of the civil date, day overflow carried forward
DaysFromCivil(y, m, d) ==
    LET yy  == IF m <= 2 THEN y - 1 ELSE y
        era == FloorDiv(yy, 400)
        yoe == yy - era * 400
        mp  == (m + 9) % 12
        doy == (153 * mp + 2) \div 5 + d - 1
        doe == yoe * 365 + yoe \div 4 - yoe \div 100 + doy
    IN  era * 146097 + doe - 719468

\* new Date(year, monthIndex, day) with monthIndex = m - 1 possibly outside
\* 0..11: the month overflow is carried into the year, the day overflow into
\* the following months
MakeDate(y, m, d) ==
    LET m0 == m - 1
        y2 == y + FloorDiv(m0, 12)
        m2 == (m0 % 12) + 1
    IN  DaysFromCivil(y2, m2, 1) + (d - 1)

\* getFullYear / getMonth()+1 / getDate of a local day
CivilFromDays(n) ==
    LET z   == n + 719468
        era == FloorDiv(z, 146097)
        doe == z - era * 146097
        yoe == (doe - doe \div 1460 + doe \div 36524 - doe \div 146096) \div 365
        doy == doe - (365 * yoe + yoe \div 4 - yoe \div 100)
        mp  == (5 * doy + 2) \div 153
        d   == doy - (153 * mp + 2) \div 5 + 1
        m   == IF mp < 10 THEN mp + 3 ELSE mp - 9
        y   == yoe + era * 400 + (IF m <= 2 THEN 1 ELSE 0)
    IN  <<y, m, d>>

getFullYear(n) == CivilFromDays(n)[1]

\* getMonth() + 1
getMonth1(n) == CivilFromDays(n)[2]

getDate(n) == CivilFromDays(n)[3]

\* getDay(): 0 = Sunday; 1970-01-01 was a Thursday
getDay(n) == (n + 4) % 7

\* new Date("YYYY-MM-DD") then setHours(0, 0, 0, 0)
ParseDate(s) == DaysFromCivil(s[1], s[2], s[3])

\* formatDate(date): the "YYYY-MM-DD" string of a local day
formatDate(n) == CivilFromDays(n)

(***************************************************************************)
(* Values                                                                  *)
(***************************************************************************)

\* null, and a present value v of a nullable field
Null == <<>>

Some(v) == <<v>>

\* the string 'never' of an ending:: field (no calendar date has year 0)
Never == <<0, 0, 0>>

Units == {"day", "week", "month", "year"}

Min(S) == CHOOSE a \in S : \A b \in S : a <= b

\* string comparison of two zero-padded "MM-DD" values, held as <<mm, dd>>
MonthDayLess(p, q) == p[1] < q[1] \/ (p[1] = q[1] /\ p[2] < q[2])

MAX_ITERATIONS == 1000

(***************************************************************************)
(* advanceDate and matchesRecurrenceConstraints                            *)
(***************************************************************************)

\* an advance by one unit whatever the interval
advanceDateByOne(date, interval, unit) ==
    CASE unit = "day"   -> date + 1
      [] unit = "week"  -> date + 7
      [] unit = "month" -> MakeDate(getFullYear(date), getMonth1(date) + 1, getDate(date))
      [] unit = "year"  -> MakeDate(getFullYear(date) + 1, getMonth1(date), getDate(date))
      [] OTHER          -> date

advanceDate(date, interval, unit) ==
    CASE unit = "day"   -> date + interval
      [] unit = "week"  -> date + interval * 7
      [] unit = "month" -> MakeDate(getFullYear(date), getMonth1(date) + interval, getDate(date))
      [] unit = "year"  -> MakeDate(getFullYear(date) + interval, getMonth1(date), getDate(date))
      [] OTHER          -> date

\* task.recurringX alone, without the test of its length
HasValuesPresent(field) == field # Null

\* task.recurringX && task.recurringX.length > 0
HasValues(field) == field # Null /\ Cardinality(field[1]) > 0

matchesRecurrenceConstraints(date, task, unit) ==
    IF unit = "week" /\ HasValues(task.recurringWDay)
    THEN getDay(date) \in task.recurringWDay[1]
    ELSE IF unit = "month" /\ HasValues(task.recurringDay)
    THEN getDate(date) \in task.recurringDay[1]
    ELSE IF unit = "year" /\ HasValues(task.recurringMonth)
    THEN <<getMonth1(date), getDate(date)>> \in task.recurringMonth[1]
    ELSE TRUE

\* a test of the pattern that lets every pattern through
PatternMatchesAny(pattern) == TRUE

\* the regular expression /^(\d+)(day|week|month|year)$/ on recurringPattern
PatternMatches(pattern) == pattern.unit \in Units

\* task.recurringEnding && task.recurringEnding !== 'never' ? new Date(...) : null
EndDateOf(task) ==
    IF task.recurringEnding # Null /\ task.recurringEnding[1] # Never
    THEN Some(ParseDate(task.recurringEnding[1]))
    ELSE Null

\* the end date parsed but never compared
PastEndIgnored(endDate, date) == FALSE

\* endDate && currentDate > endDate
PastEnd(endDate, date) == endDate # Null /\ date > endDate[1]

(***************************************************************************)
(* calculateNextOccurrences and calculateNextOccurrenceAfterDate as a      *)
(* machine: one record holds the locals of the running call, pc names the  *)
(* loop it is in, and each step is one loop iteration or one loop exit.    *)
(***************************************************************************)

CalcIdle ==
    [fn |-> "none", pc |-> "done", task |-> Null, count |-> 0, today |-> 0,
     afterDate |-> Null, interval |-> 0, unit |-> "", endDate |-> Null,
     currentDate |-> 0, safetyCounter |-> 0, innerSafety |-> 0,
     occurrences |-> <<>>, result |-> Null]

\* calculateNextOccurrences with the search begun at today whatever the
\* starting date of the rule
BeginOccurrencesFromToday(task, count, today) ==
    LET base == [CalcIdle EXCEPT !.fn = "occ", !.task = Some(task),
                                 !.count = count, !.today = today]
    IN  IF ~task.isRecurring \/ task.recurringPattern = Null
        THEN base
        ELSE IF ~PatternMatches(task.recurringPattern[1])
        THEN base
        ELSE [base EXCEPT
                !.pc = "anchor",
                !.interval = task.recurringPattern[1].interval,
                !.unit = task.recurringPattern[1].unit,
                !.endDate = EndDateOf(task),
                !.currentDate = today]

\* calculateNextOccurrences up to its first loop
BeginOccurrences(task, count, today) ==
    LET base == [CalcIdle EXCEPT !.fn = "occ", !.task = Some(task),
                                 !.count = count, !.today = today]
    IN  IF ~task.isRecurring \/ task.recurringPattern = Null
        THEN base
        ELSE IF ~PatternMatches(task.recurringPattern[1])
        THEN base
        ELSE [base EXCEPT
                !.pc = "anchor",
                !.interval = task.recurringPattern[1].interval,
                !.unit = task.recurringPattern[1].unit,
                !.endDate = EndDateOf(task),
                !.currentDate = IF task.recurringStarting # Null
                                THEN ParseDate(task.recurringStarting[1])
                                ELSE today]

\* the anchor loops with the ceiling tested by <= : one iteration too many
AnchorStepOffByOne(c) ==
    LET task == c.task[1]
        constrained ==
            \/ c.unit = "week"  /\ HasValues(task.recurringWDay)
            \/ c.unit = "month" /\ HasValues(task.recurringDay)
            \/ c.unit = "year"  /\ HasValues(task.recurringMonth)
    IN  IF /\ constrained
           /\ ~matchesRecurrenceConstraints(c.currentDate, task, c.unit)
           /\ c.safetyCounter <= MAX_ITERATIONS
        THEN [c EXCEPT !.currentDate = @ + 1, !.safetyCounter = @ + 1]
        ELSE [c EXCEPT !.pc = "catchup", !.safetyCounter = 0]

\* the if / else-if chain of day-by-day anchor loops
AnchorStep(c) ==
    LET task == c.task[1]
        constrained ==
            \/ c.unit = "week"  /\ HasValues(task.recurringWDay)
            \/ c.unit = "month" /\ HasValues(task.recurringDay)
            \/ c.unit = "year"  /\ HasValues(task.recurringMonth)
    IN  IF /\ constrained
           /\ ~matchesRecurrenceConstraints(c.currentDate, task, c.unit)
           /\ c.safetyCounter < MAX_ITERATIONS
        THEN [c EXCEPT !.currentDate = @ + 1, !.safetyCounter = @ + 1]
        ELSE [c EXCEPT !.pc = "catchup", !.safetyCounter = 0]

\* the catch-up that walks to today one day at a time
CatchUpStepByDay(c) ==
    IF c.currentDate < c.today /\ c.safetyCounter < MAX_ITERATIONS
    THEN [c EXCEPT !.currentDate = @ + 1, !.safetyCounter = @ + 1]
    ELSE [c EXCEPT !.pc = "final", !.safetyCounter = 0]

\* "Now advance to today or later if starting date is in the past"
CatchUpStep(c) ==
    IF c.currentDate < c.today /\ c.safetyCounter < MAX_ITERATIONS
    THEN [c EXCEPT
            !.currentDate =
                IF matchesRecurrenceConstraints(c.currentDate, c.task[1], c.unit)
                THEN advanceDate(c.currentDate, c.interval, c.unit)
                ELSE c.currentDate + 1,
            !.safetyCounter = @ + 1]
    ELSE [c EXCEPT !.pc = "final", !.safetyCounter = 0]

\* "Final check: make sure we're on a valid occurrence"
FinalSnapStep(c) ==
    IF /\ ~matchesRecurrenceConstraints(c.currentDate, c.task[1], c.unit)
       /\ c.safetyCounter < MAX_ITERATIONS
    THEN [c EXCEPT !.currentDate = @ + 1, !.safetyCounter = @ + 1]
    ELSE [c EXCEPT !.pc = "generate", !.safetyCounter = 0]

\* one pass of the generation loop up to its inner loop
GenerateStep(c) ==
    IF Len(c.occurrences) < c.count /\ c.safetyCounter < MAX_ITERATIONS
    THEN IF PastEnd(c.endDate, c.currentDate)
         THEN [c EXCEPT !.pc = "done"]
         ELSE IF matchesRecurrenceConstraints(c.currentDate, c.task[1], c.unit)
         THEN [c EXCEPT
                 !.occurrences = Append(@, formatDate(c.currentDate)),
                 !.currentDate = advanceDate(c.currentDate, c.interval, c.unit),
                 !.innerSafety = 0,
                 !.pc = "resnap"]
         ELSE [c EXCEPT !.currentDate = @ + 1, !.safetyCounter = @ + 1]
    ELSE [c EXCEPT !.pc = "done"]

\* the inner loop after an emission, then the outer safetyCounter++
ReSnapStep(c) ==
    IF /\ ~matchesRecurrenceConstraints(c.currentDate, c.task[1], c.unit)
       /\ c.innerSafety < MAX_ITERATIONS
    THEN [c EXCEPT !.currentDate = @ + 1, !.innerSafety = @ + 1]
    ELSE [c EXCEPT !.pc = "generate", !.safetyCounter = @ + 1]

\* the search of the next 6 days left out: a weekly rule with several days
\* goes on to the advance by its interval
WeekCandidatesSkipped(task, endDate, currentDate) == {}

\* weekly with several days: the first of the next 6 days that is in the list
\* and within the end date
WeekCandidates(task, endDate, currentDate) ==
    {i \in 1..6 : /\ getDay(currentDate + i) \in task.recurringWDay[1]
                  /\ (endDate = Null \/ currentDate + i <= endDate[1])}

\* the listed days after the current one, without the test that setDate
\* stayed in the month
MonthCandidatesUnchecked(task, endDate, currentDate) ==
    {day \in task.recurringDay[1] :
        /\ day > getDate(currentDate)
        /\ (endDate = Null
            \/ MakeDate(getFullYear(currentDate), getMonth1(currentDate), day) <= endDate[1])}

\* monthly with several days: the listed days after the current one that
\* setDate keeps in the same month, within the end date
MonthCandidates(task, endDate, currentDate) ==
    {day \in task.recurringDay[1] :
        LET testDate == MakeDate(getFullYear(currentDate), getMonth1(currentDate), day)
        IN  /\ day > getDate(currentDate)
            /\ getMonth1(testDate) = getMonth1(currentDate)
            /\ (endDate = Null \/ testDate <= endDate[1])}

\* yearly with several dates: the listed MM-DD after the current one whose
\* new Date(currentYear, month - 1, day) is within the end date
YearCandidates(task, endDate, currentDate) ==
    {md \in task.recurringMonth[1] :
        /\ MonthDayLess(<<getMonth1(currentDate), getDate(currentDate)>>, md)
        /\ (endDate = Null
            \/ MakeDate(getFullYear(currentDate), md[1], md[2]) <= endDate[1])}

\* calculateNextOccurrenceAfterDate up to its day-by-day loop
BeginAfterDate(task, afterDate) ==
    LET base == [CalcIdle EXCEPT !.fn = "after", !.task = Some(task),
                                 !.afterDate = Some(afterDate)]
    IN  IF ~task.isRecurring \/ task.recurringPattern = Null
        THEN base
        ELSE IF ~PatternMatches(task.recurringPattern[1])
        THEN base
        ELSE
        LET interval    == task.recurringPattern[1].interval
            unit        == task.recurringPattern[1].unit
            endDate     == EndDateOf(task)
            currentDate == ParseDate(afterDate)
            started     == [base EXCEPT !.interval = interval, !.unit = unit,
                                        !.endDate = endDate,
                                        !.currentDate = currentDate]
            wk == IF unit = "week" /\ task.recurringWDay # Null
                     /\ Cardinality(task.recurringWDay[1]) > 1
                  THEN WeekCandidates(task, endDate, currentDate) ELSE {}
            mo == IF unit = "month" /\ task.recurringDay # Null
                     /\ Cardinality(task.recurringDay[1]) > 1
                  THEN MonthCandidates(task, endDate, currentDate) ELSE {}
            yr == IF unit = "year" /\ task.recurringMonth # Null
                     /\ Cardinality(task.recurringMonth[1]) > 1
                  THEN YearCandidates(task, endDate, currentDate) ELSE {}
        IN  IF wk # {}
            THEN [started EXCEPT !.result = Some(formatDate(currentDate + Min(wk)))]
            ELSE IF mo # {}
            THEN [started EXCEPT !.result =
                    Some(formatDate(MakeDate(getFullYear(currentDate),
                                             getMonth1(currentDate), Min(mo))))]
            ELSE IF yr # {}
            THEN LET md == CHOOSE p \in yr : \A q \in yr : p = q \/ MonthDayLess(p, q)
                 IN  [started EXCEPT !.result =
                        Some(formatDate(MakeDate(getFullYear(currentDate), md[1], md[2])))]
            ELSE [started EXCEPT
                    !.pc = "snap",
                    !.currentDate = advanceDate(currentDate, interval, unit)]

\* "Then find the next date that matches constraints", and the two checks
\* that follow the loop
AfterSnapStep(c) ==
    IF /\ ~matchesRecurrenceConstraints(c.currentDate, c.task[1], c.unit)
       /\ c.safetyCounter < MAX_ITERATIONS
    THEN [c EXCEPT !.currentDate = @ + 1, !.safetyCounter = @ + 1]
    ELSE IF PastEnd(c.endDate, c.currentDate)
    THEN [c EXCEPT !.pc = "done"]
    ELSE IF c.safetyCounter >= MAX_ITERATIONS
    THEN [c EXCEPT !.pc = "done"]
    ELSE [c EXCEPT !.pc = "done", !.result = Some(formatDate(c.currentDate))]

CalcStep(c) ==
    CASE c.pc = "anchor"   -> AnchorStep(c)
      [] c.pc = "catchup"  -> CatchUpStep(c)
      [] c.pc = "final"    -> FinalSnapStep(c)
      [] c.pc = "generate" -> GenerateStep(c)
      [] c.pc = "resnap"   -> ReSnapStep(c)
      [] c.pc = "snap"     -> AfterSnapStep(c)
      [] OTHER             -> c

\* a call run to its return: n steps of the machine, by halving so that the
\* evaluation stays shallow; RunFuel exceeds the steps any call can take
RECURSIVE RunSteps(_, _)
RunSteps(c, n) ==
    IF c.pc = "done" \/ n = 0 THEN c
    ELSE IF n = 1 THEN CalcStep(c)
    ELSE RunSteps(RunSteps(c, n \div 2), n - n \div 2)

RunFuel == 16384

calculateNextOccurrences(task, count, today) ==
    RunSteps(BeginOccurrences(task, count, today), RunFuel).occurrences

calculateNextOccurrenceAfterDate(task, afterDate) ==
    RunSteps(BeginAfterDate(task, afterDate), RunFuel).result


(***************************************************************************)
(* The task file and the in-memory task list                               *)
(*                                                                         *)
(* The file is a sequence of lines.  A line is a heading ("# ..."), a      *)
(* blank line, or a task line; a task line is held by the fields that      *)
(* parseTaskLine extracts from it (eta, priority and extra tags play no    *)
(* part in the engine and are left out).                                   *)
(***************************************************************************)

NoFields ==
    [status |-> "todo", taskName |-> "", dueDate |-> Null, project |-> Null,
     section |-> Null, isRecurring |-> FALSE, recurringPattern |-> Null,
     recurringStarting |-> Null, recurringEnding |-> Null,
     recurringWDay |-> Null, recurringDay |-> Null, recurringMonth |-> Null]

HeaderLine == [kind |-> "header", f |-> NoFields]

BlankLine == [kind |-> "blank", f |-> NoFields]

TaskLine(fields) == [kind |-> "task", f |-> fields]

\* parseTaskLine(line, lineNumber): the Task of a task line
parseTaskLine(line, lineNumber) ==
    [lineNumber |-> lineNumber, isGeneratedRecurring |-> FALSE,
     status |-> line.f.status, taskName |-> line.f.taskName,
     dueDate |-> line.f.dueDate, project |-> line.f.project,
     section |-> line.f.section, isRecurring |-> line.f.isRecurring,
     recurringPattern |-> line.f.recurringPattern,
     recurringStarting |-> line.f.recurringStarting,
     recurringEnding |-> line.f.recurringEnding,
     recurringWDay |-> line.f.recurringWDay,
     recurringDay |-> line.f.recurringDay,
     recurringMonth |-> line.f.recurringMonth]

\* parseTasks(content): the task lines in file order, with 0-based line numbers
parseTasks(content) ==
    LET idx == SelectSeq([i \in 1..Len(content) |-> i],
                         LAMBDA i : content[i].kind = "task")
    IN  [k \in 1..Len(idx) |-> parseTaskLine(content[idx[k]], idx[k] - 1)]

\* buildRecurringTaskInstance(recurringTask, dueDate): "- [ ] name due::D #tag"
buildRecurringTaskInstance(recurringTask, dueDate) ==
    TaskLine([NoFields EXCEPT
                !.taskName = recurringTask.taskName,
                !.dueDate  = Some(dueDate),
                !.project  = recurringTask.project,
                !.section  = IF recurringTask.project # Null
                             THEN recurringTask.section ELSE Null])

\* line.replace('- [ ]', '- [x]') and line.replace('- [x]', '- [ ]')
MarkDone(line) == IF line.kind = "task" THEN [line EXCEPT !.f.status = "done"] ELSE line

MarkTodo(line) == IF line.kind = "task" THEN [line EXCEPT !.f.status = "todo"] ELSE line

\* lines.splice(i, 0, x) and lines.splice(i, 1) for a 0-based i
InsertAt(lines, i, line) == SubSeq(lines, 1, i) \o <<line>> \o SubSeq(lines, i + 1, Len(lines))

\* lines.splice(i, 2): the line after the removed one goes with it
RemoveAtTwo(lines, i) == SubSeq(lines, 1, i) \o SubSeq(lines, i + 3, Len(lines))

RemoveAt(lines, i) == SubSeq(lines, 1, i) \o SubSeq(lines, i + 2, Len(lines))

\* "Add next occurrence at top (after headers)": the 0-based index of the
\* first line that is neither a heading nor blank, 0 when there is none
InsertIndex(lines) ==
    LET cand == {i \in 1..Len(lines) : lines[i].kind = "task"}
    IN  IF cand = {} THEN 0 ELSE Min(cand) - 1

RECURSIVE Flatten(_)
Flatten(ss) == IF ss = <<>> THEN <<>> ELSE Head(ss) \o Flatten(Tail(ss))

\* this.tasks.filter(t => t.isRecurring && !t.isGeneratedRecurring)
Templates(taskList) == SelectSeq(taskList, LAMBDA t : t.isRecurring /\ ~t.isGeneratedRecurring)

\* the existence test with the negation of isRecurring dropped: it looks for
\* the date among the templates
InstanceExistsAmongTemplates(taskList, name, date) ==
    \E i \in 1..Len(taskList) :
        /\ taskList[i].taskName = name
        /\ taskList[i].dueDate = Some(date)
        /\ taskList[i].isRecurring

\* this.tasks.some(t => t.taskName === name && t.dueDate === date && !t.isRecurring)
InstanceExists(taskList, name, date) ==
    \E i \in 1..Len(taskList) :
        /\ taskList[i].taskName = name
        /\ taskList[i].dueDate = Some(date)
        /\ ~taskList[i].isRecurring

\* the template found by toggleTask: the first template of the list with the
\* task's name, project and section (Null when there is none)
FindTemplate(taskList, task) ==
    LET hits == {i \in 1..Len(taskList) :
                    /\ taskList[i].isRecurring
                    /\ ~taskList[i].isGeneratedRecurring
                    /\ taskList[i].taskName = task.taskName
                    /\ taskList[i].project = task.project
                    /\ taskList[i].section = task.section}
    IN  IF hits = {} THEN Null ELSE Some(taskList[Min(hits)])

(***************************************************************************)
(* checkAndGenerateRecurringTasks, generateFutureRecurringTasks, toggleTask *)
(***************************************************************************)

\* the loop of the materialization pass: the lines of newTasksToAdd
NewTasksToAdd(taskList, today) ==
    LET tomorrow == today + 1
        recurringTasks == Templates(taskList)
        ForOccurrence(recurringTask, occurrence) ==
            LET occurrenceDate == ParseDate(occurrence)
                occurrenceDateStr == formatDate(occurrenceDate)
            IN  IF /\ occurrenceDate <= tomorrow
                   /\ ~InstanceExists(taskList, recurringTask.taskName, occurrenceDateStr)
                THEN <<buildRecurringTaskInstance(recurringTask, occurrenceDateStr)>>
                ELSE <<>>
        ForOccurrences(recurringTask, nextOccurrences) ==
            Flatten([k \in 1..Len(nextOccurrences) |->
                        ForOccurrence(recurringTask, nextOccurrences[k])])
        ForTemplate(recurringTask) ==
            ForOccurrences(recurringTask, calculateNextOccurrences(recurringTask, 2, today))
    IN  Flatten([k \in 1..Len(recurringTasks) |-> ForTemplate(recurringTasks[k])])

\* generateFutureRecurringTasks with lineNumber: -1 left out of the virtual
\* task, which then keeps the line number spread from its template
generateFutureKeepingLine(taskList, today) ==
    LET recurringTasks == Templates(taskList)
        ForOccurrences(recurringTask, nextOccurrences) ==
            IF /\ Len(nextOccurrences) > 0
               /\ ~InstanceExists(taskList, recurringTask.taskName, nextOccurrences[1])
            THEN <<[recurringTask EXCEPT !.dueDate = Some(nextOccurrences[1]),
                                         !.isGeneratedRecurring = TRUE]>>
            ELSE <<>>
        ForTemplate(recurringTask) ==
            ForOccurrences(recurringTask, calculateNextOccurrences(recurringTask, 1, today))
    IN  Flatten([k \in 1..Len(recurringTasks) |-> ForTemplate(recurringTasks[k])])

generateFutureRecurringTasks(taskList, today) ==
    LET recurringTasks == Templates(taskList)
        ForOccurrences(recurringTask, nextOccurrences) ==
            IF /\ Len(nextOccurrences) > 0
               /\ ~InstanceExists(taskList, recurringTask.taskName, nextOccurrences[1])
            THEN <<[recurringTask EXCEPT !.dueDate = Some(nextOccurrences[1]),
                                         !.isGeneratedRecurring = TRUE,
                                         !.lineNumber = -1]>>
            ELSE <<>>
        ForTemplate(recurringTask) ==
            ForOccurrences(recurringTask, calculateNextOccurrences(recurringTask, 1, today))
    IN  Flatten([k \in 1..Len(recurringTasks) |-> ForTemplate(recurringTasks[k])])

\* toggleTask with the completed record of a virtual occurrence pushed before
\* the test of nextOccurrence instead of inside it
ToggleLinesRecordFirst(lines, taskList, task) ==
    LET Write(templateTask, nextOccurrence) ==
            IF task.status = "todo"
            THEN IF task.isGeneratedRecurring /\ task.lineNumber = -1
                 THEN LET currentTaskLine ==
                              MarkDone(buildRecurringTaskInstance(task, task.dueDate[1]))
                          pushed == lines \o <<BlankLine, currentTaskLine>>
                      IN  IF nextOccurrence # Null
                          THEN InsertAt(pushed, InsertIndex(pushed),
                                        buildRecurringTaskInstance(templateTask[1],
                                                                   nextOccurrence[1]))
                          ELSE pushed
                 ELSE IF task.lineNumber >= 0 /\ task.lineNumber < Len(lines)
                 THEN LET completedLine == MarkDone(lines[task.lineNumber + 1])
                          removed == RemoveAt(lines, task.lineNumber)
                          withNext ==
                              IF nextOccurrence # Null
                              THEN InsertAt(removed, InsertIndex(removed),
                                            buildRecurringTaskInstance(templateTask[1],
                                                                       nextOccurrence[1]))
                              ELSE removed
                      IN  withNext \o <<BlankLine, completedLine>>
                 ELSE lines
            ELSE IF task.lineNumber >= 0 /\ task.lineNumber < Len(lines)
                 THEN [lines EXCEPT ![task.lineNumber + 1] = MarkTodo(@)]
                 ELSE lines
        WithTemplate(templateTask) ==
            Write(templateTask,
                  IF templateTask # Null /\ task.dueDate # Null
                  THEN calculateNextOccurrenceAfterDate(templateTask[1], task.dueDate[1])
                  ELSE Null)
    IN  WithTemplate(FindTemplate(taskList, task))

\* toggleTask between its read and its write: the lines it writes.  Write is
\* the body of the function for the template found and the next occurrence
\* computed from it (null when no template matches or the task has no date).
ToggleLines(lines, taskList, task) ==
    LET Write(templateTask, nextOccurrence) ==
            IF task.status = "todo"
            THEN IF task.isGeneratedRecurring /\ task.lineNumber = -1
                 THEN IF nextOccurrence # Null
                      THEN LET currentTaskLine ==
                                   MarkDone(buildRecurringTaskInstance(task, task.dueDate[1]))
                               nextTaskLine ==
                                   buildRecurringTaskInstance(templateTask[1], nextOccurrence[1])
                               pushed == lines \o <<BlankLine, currentTaskLine>>
                           IN  InsertAt(pushed, InsertIndex(pushed), nextTaskLine)
                      ELSE lines
                 ELSE IF task.lineNumber >= 0 /\ task.lineNumber < Len(lines)
                 THEN LET completedLine == MarkDone(lines[task.lineNumber + 1])
                          removed == RemoveAt(lines, task.lineNumber)
                          withNext ==
                              IF nextOccurrence # Null
                              THEN InsertAt(removed, InsertIndex(removed),
                                            buildRecurringTaskInstance(templateTask[1],
                                                                       nextOccurrence[1]))
                              ELSE removed
                      IN  withNext \o <<BlankLine, completedLine>>
                 ELSE lines
            ELSE IF task.lineNumber >= 0 /\ task.lineNumber < Len(lines)
                 THEN [lines EXCEPT ![task.lineNumber + 1] = MarkTodo(@)]
                 ELSE lines
        WithTemplate(templateTask) ==
            Write(templateTask,
                  IF templateTask # Null /\ task.dueDate # Null
                  THEN calculateNextOccurrenceAfterDate(templateTask[1], task.dueDate[1])
                  ELSE Null)
    IN  WithTemplate(FindTemplate(taskList, task))

\* the template filter of renderTodayView / renderDoneView / renderProjectView:
\* a template is left out when the list holds a non-recurring task with its
\* name and its due date
HiddenTemplate(taskList, task) ==
    /\ task.isRecurring /\ ~task.isGeneratedRecurring
    /\ \E i \in 1..Len(taskList) :
          /\ ~taskList[i].isRecurring
          /\ taskList[i].taskName = task.taskName
          /\ taskList[i].dueDate = task.dueDate

(***************************************************************************)
(* The handlers.  A handler is an async function: it runs from one await   *)
(* to the next without interruption.  w holds what the handlers share (the *)
(* file, this.tasks, this.lastRecurringCheck, and the number of 'modify'   *)
(* events raised), h the locals of one running handler.  vault.read hands  *)
(* back the content the file had when the read was issued; vault.modify    *)
(* replaces the file when it is called.                                    *)
(***************************************************************************)

\* Date.now() counts ticks of 12 hours; oneDay = 24 * 60 * 60 * 1000
TicksPerDay == 2

oneDay == TicksPerDay

\* new Date() then setHours(0, 0, 0, 0)
TodayOf(nowv) == nowv \div TicksPerDay

\* loadTasks with the gate tested but this.lastRecurringCheck = now left out
LoadParseStepUnstamped(w, h, nowv) ==
    LET parsed == parseTasks(h.content)
    IN  IF nowv - w.lastRecurringCheck < oneDay
        THEN [w |-> [w EXCEPT !.tasks = parsed],
              h |-> [h EXCEPT !.pc = "load_gen"]]
        ELSE [w |-> [w EXCEPT !.tasks = parsed],
              h |-> [h EXCEPT !.pc = "pass_read", !.content = w.store]]

\* loadTasks resumed after its read: parse, then checkAndGenerateRecurringTasks
\* up to its own read
LoadParseStep(w, h, nowv) ==
    LET parsed == parseTasks(h.content)
    IN  IF nowv - w.lastRecurringCheck < oneDay
        THEN [w |-> [w EXCEPT !.tasks = parsed],
              h |-> [h EXCEPT !.pc = "load_gen"]]
        ELSE [w |-> [w EXCEPT !.tasks = parsed, !.lastRecurringCheck = nowv],
              h |-> [h EXCEPT !.pc = "pass_read", !.content = w.store]]

\* the pass without the test of newTasksToAdd.length: it writes the content
\* back also when there is nothing to add
PassWriteAlways(w, h, nowv) ==
    LET Append1(newTasksToAdd) ==
            [w |-> [w EXCEPT !.store = h.content \o newTasksToAdd,
                             !.modified = @ + 1],
             h |-> [h EXCEPT !.pc = "load_gen"]]
    IN  Append1(NewTasksToAdd(w.tasks, TodayOf(nowv)))

\* checkAndGenerateRecurringTasks resumed after its read, up to its write
PassWriteStep(w, h, nowv) ==
    LET Append1(newTasksToAdd) ==
            IF Len(newTasksToAdd) > 0
            THEN [w |-> [w EXCEPT !.store = h.content \o newTasksToAdd,
                                  !.modified = @ + 1],
                  h |-> [h EXCEPT !.pc = "load_gen"]]
            ELSE [w |-> w, h |-> [h EXCEPT !.pc = "load_gen"]]
    IN  Append1(NewTasksToAdd(w.tasks, TodayOf(nowv)))

\* loadTasks after the pass: append the virtual occurrences
LoadGenerateStep(w, h, nowv) ==
    [w |-> [w EXCEPT !.tasks = @ \o generateFutureRecurringTasks(@, TodayOf(nowv))],
     h |-> [h EXCEPT !.pc = "done"]]

\* toggleTask resumed after its read, up to its write
ToggleWriteStep(w, h, nowv) ==
    [w |-> [w EXCEPT !.store = ToggleLines(h.content, w.tasks, h.task[1]),
                     !.modified = @ + 1],
     h |-> [h EXCEPT !.pc = "tog_written"]]

\* toggleTask resumed after its write: loadTasks up to its read
ToggleReloadStep(w, h, nowv) ==
    [w |-> w, h |-> [h EXCEPT !.pc = "load_read", !.content = w.store]]

HandlerStep(w, h, nowv) ==
    CASE h.pc = "load_read"   -> LoadParseStep(w, h, nowv)
      [] h.pc = "pass_read"   -> PassWriteStep(w, h, nowv)
      [] h.pc = "load_gen"    -> LoadGenerateStep(w, h, nowv)
      [] h.pc = "tog_read"    -> ToggleWriteStep(w, h, nowv)
      [] h.pc = "tog_written" -> ToggleReloadStep(w, h, nowv)
      [] OTHER                -> [w |-> w, h |-> h]

\* a handler run from its first await to its return with nothing in between
RECURSIVE RunHandler(_, _, _)
RunHandler(w, h, nowv) ==
    IF h.pc = "done" THEN w
    ELSE LET Resume(r) == RunHandler(r.w, r.h, nowv)
         IN  Resume(HandlerStep(w, h, nowv))

\* loadTasks and toggleTask(task) up to their first await (the read)
LoadHandler(kind, content) ==
    [kind |-> kind, pc |-> "load_read", content |-> content, task |-> Null]

ToggleHandler(content, task) ==
    [kind |-> "toggle", pc |-> "tog_read", content |-> content, task |-> Some(task)]

(***************************************************************************)
(* The recurring editor: RecurringTaskModal.saveRecurring, then the         *)
(* callback of showRecurringEditor (updateTask, createFirstOccurrence,      *)
(* loadTasks)                                                               *)
(***************************************************************************)

\* what the Save button of the modal reads from its inputs
Settings(type, n, starting, ending, wday, day, month) ==
    [type |-> type, interval |-> n, starting |-> starting, ending |-> ending,
     wday |-> wday, day |-> day, month |-> month]

\* selectedDays.length > 0 ? selectedDays : null
SelectedOrNull(selected) == IF selected # {} THEN Some(selected) ELSE Null

\* the constraint field written on the line only when it has a value
NonEmptyOrNull(field) == IF HasValues(field) THEN field ELSE Null

\* saveRecurring for a type other than '': the task with the settings written
\* into it (parseInt(value) || 1 for the interval, only the constraint of the
\* type kept)
saveRecurring(task, settings) ==
    [task EXCEPT
        !.isRecurring = TRUE,
        !.recurringPattern =
            Some([interval |-> IF settings.interval = 0 THEN 1 ELSE settings.interval,
                  unit |-> settings.type]),
        !.recurringStarting = settings.starting,
        !.recurringEnding = settings.ending,
        !.recurringWDay = IF settings.type = "week" THEN SelectedOrNull(settings.wday) ELSE Null,
        !.recurringDay = IF settings.type = "month" THEN SelectedOrNull(settings.day) ELSE Null,
        !.recurringMonth = IF settings.type = "year" THEN SelectedOrNull(settings.month) ELSE Null]

\* the callback of showRecurringEditor: a task saved without a start date
\* starts today
DefaultStart(task, today) ==
    IF task.recurringStarting = Null
    THEN [task EXCEPT !.recurringStarting = Some(formatDate(today))]
    ELSE task

\* the callback of showRecurringEditor: the due date of the template becomes
\* the first occurrence when there is one
WithFirstDue(task, occurrences) ==
    IF occurrences # <<>>
    THEN [task EXCEPT !.dueDate = Some(occurrences[1])]
    ELSE task

\* updateTask: the line of the task rebuilt from its fields
UpdatedLine(task) ==
    TaskLine([NoFields EXCEPT
        !.status = task.status,
        !.taskName = task.taskName,
        !.dueDate = task.dueDate,
        !.project = task.project,
        !.section = IF task.project # Null THEN task.section ELSE Null,
        !.isRecurring = task.isRecurring /\ ~task.isGeneratedRecurring,
        !.recurringPattern = IF task.isRecurring /\ ~task.isGeneratedRecurring
                             THEN task.recurringPattern ELSE Null,
        !.recurringStarting = IF task.isRecurring /\ ~task.isGeneratedRecurring
                              THEN task.recurringStarting ELSE Null,
        !.recurringEnding = IF task.isRecurring /\ ~task.isGeneratedRecurring
                            THEN task.recurringEnding ELSE Null,
        !.recurringWDay = IF task.isRecurring /\ ~task.isGeneratedRecurring
                          THEN NonEmptyOrNull(task.recurringWDay) ELSE Null,
        !.recurringDay = IF task.isRecurring /\ ~task.isGeneratedRecurring
                         THEN NonEmptyOrNull(task.recurringDay) ELSE Null,
        !.recurringMonth = IF task.isRecurring /\ ~task.isGeneratedRecurring
                           THEN NonEmptyOrNull(task.recurringMonth) ELSE Null])

\* updateTask up to its loadTasks: lines[task.lineNumber] = newLine
updateTask(w, task) ==
    IF task.lineNumber >= 0 /\ task.lineNumber < Len(w.store)
    THEN [w EXCEPT !.store = [w.store EXCEPT ![task.lineNumber + 1] = UpdatedLine(task)],
                   !.modified = @ + 1]
    ELSE w

\* createFirstOccurrence after its calculateNextOccurrences(task, 1): the
\* first occurrence inserted after the template's line
createFirstOccurrence(w, task, occurrences) ==
    IF occurrences = <<>> THEN w
    ELSE [w EXCEPT
            !.store = InsertAt(w.store, Min({task.lineNumber + 1, Len(w.store)}),
                               buildRecurringTaskInstance(task, occurrences[1])),
            !.modified = @ + 1]

\* the callback of showRecurringEditor called with the task the modal saved
SaveHandler(content, savedTask) ==
    [kind |-> "edit", pc |-> "edit", content |-> content, task |-> Some(savedTask),
     occurrences |-> <<>>]

\* the callback step by step: the start defaulted, calculateNextOccurrences
\* (updatedTask, 1) and the due date set, updateTask's write and loadTasks,
\* then createFirstOccurrence (its calculateNextOccurrences(task, 1), its
\* insert) and the callback's own loadTasks
SaveStep(w, h, nowv) ==
    CASE h.pc = "edit" ->
            [w |-> w,
             h |-> [h EXCEPT !.pc = "first",
                             !.task = Some(DefaultStart(h.task[1], TodayOf(nowv)))]]
      [] h.pc = "first" ->
            [w |-> w,
             h |-> [h EXCEPT !.pc = IF h.kind = "edit" THEN "due" ELSE "insert",
                             !.occurrences = calculateNextOccurrences(h.task[1], 1, TodayOf(nowv))]]
      [] h.pc = "due" ->
            [w |-> w,
             h |-> [h EXCEPT !.pc = "upd_read",
                             !.task = Some(WithFirstDue(h.task[1], h.occurrences))]]
      [] h.pc = "upd_read" ->
            [w |-> updateTask(w, h.task[1]),
             h |-> [h EXCEPT !.pc = "upd_written"]]
      [] h.pc = "upd_written" ->
            [w |-> w, h |-> [h EXCEPT !.pc = "load_read", !.content = w.store]]
      [] h.pc = "done" /\ h.kind = "edit" ->
            [w |-> w, h |-> [h EXCEPT !.pc = "first", !.kind = "edit_created"]]
      [] h.pc = "insert" ->
            [w |-> createFirstOccurrence(w, h.task[1], h.occurrences),
             h |-> [h EXCEPT !.pc = "created"]]
      [] h.pc = "created" ->
            [w |-> w, h |-> [h EXCEPT !.pc = "load_read", !.content = w.store]]
      [] OTHER -> HandlerStep(w, h, nowv)

\* the callback run from its first await to its return with nothing in between
RECURSIVE RunSave(_, _, _)
RunSave(w, h, nowv) ==
    IF h.pc = "done" /\ h.kind = "edit_created" THEN w
    ELSE CHOOSE x \in {RunSave(r.w, r.h, nowv) : r \in {SaveStep(w, h, nowv)}} : TRUE

(***************************************************************************)
(* State                                                                   *)
(***************************************************************************)

VARIABLES
    calc,                \* the running call of the occurrence calculator
    store,               \* the lines of the task file
    tasks,               \* this.tasks
    lastRecurringCheck,  \* this.lastRecurringCheck
    now,                 \* Date.now()
    watching,            \* the 'modify' watcher is registered (setupFileWatcher)
    pending,             \* a 'modify' event is waiting for the watcher's load
    handlers             \* the handlers in flight

vars == <<calc, store, tasks, lastRecurringCheck, now, watching, pending, handlers>>

World == [store |-> store, tasks |-> tasks,
          lastRecurringCheck |-> lastRecurringCheck, modified |-> 0]

\* the tasks a view lists, each with its checkbox
Listed == {i \in 1..Len(tasks) : ~HiddenTemplate(tasks, tasks[i])}

(***************************************************************************)
(* Bounds and inputs                                                       *)
(***************************************************************************)

MaxLines == 8

MaxDays == 1

Day0 == ParseDate(<<2025, 10, 18>>)

Rule(n, u, starting, ending, wday, day, month) ==
    [NoFields EXCEPT !.isRecurring = TRUE,
                     !.recurringPattern = Some([interval |-> n, unit |-> u]),
                     !.recurringStarting = starting, !.recurringEnding = ending,
                     !.recurringWDay = wday, !.recurringDay = day,
                     !.recurringMonth = month]

TemplateLine(name, project, rule) ==
    TaskLine([rule EXCEPT !.taskName = name, !.project = project])

StoreRules ==
    { Rule(1, "day", Some(<<2025, 10, 17>>), Null, Null, Null, Null),
      Rule(1, "day", Some(<<2025, 10, 18>>), Some(<<2025, 10, 19>>), Null, Null, Null),
      Rule(1, "day", Some(<<2025, 10, 18>>), Some(<<2025, 10, 18>>), Null, Null, Null),
      Rule(0, "day", Some(<<2025, 10, 18>>), Null, Null, Null, Null),
      Rule(1, "week", Some(<<2025, 10, 18>>), Null, Some({0, 1}), Null, Null),
      [Rule(1, "week", Some(<<2025, 10, 18>>), Null, Some({1}), Null, Null)
          EXCEPT !.dueDate = Some(<<2025, 10, 20>>)],
      Rule(1, "day", Some(<<2022, 1, 1>>), Null, Null, Null, Null) }

InitialStores ==
    { <<HeaderLine, TemplateLine("a", Null, r)>> : r \in StoreRules }

(***************************************************************************)
(* The handlers run one at a time                                          *)
(***************************************************************************)

Init ==
    /\ calc = CalcIdle
    /\ store \in InitialStores
    /\ tasks = <<>>
    /\ lastRecurringCheck = 0
    /\ now = Day0 * TicksPerDay
    /\ watching = FALSE
    /\ pending = FALSE
    /\ handlers = <<>>

\* onOpen: loadTasks, then setupFileWatcher
OnOpen ==
    /\ ~watching
    /\ watching' = TRUE
    /\ \E w \in {RunHandler(World, LoadHandler("open", store), now)} :
           /\ store' = w.store
           /\ tasks' = w.tasks
           /\ lastRecurringCheck' = w.lastRecurringCheck
           /\ pending' = FALSE
    /\ UNCHANGED <<calc, now, handlers>>

\* the watcher's callback: loadTasks
WatcherLoad ==
    /\ watching /\ pending
    /\ \E w \in {RunHandler(World, LoadHandler("watch", store), now)} :
           /\ store' = w.store
           /\ tasks' = w.tasks
           /\ lastRecurringCheck' = w.lastRecurringCheck
           /\ pending' = (w.modified > 0)
    /\ UNCHANGED <<calc, now, watching, handlers>>

\* a click on the checkbox of a listed task: toggleTask(task)
ToggleTask(i) ==
    /\ watching /\ ~pending
    /\ Len(store) + 3 <= MaxLines
    /\ \E w \in {RunHandler(World, ToggleHandler(store, tasks[i]), now)} :
           /\ store' = w.store
           /\ tasks' = w.tasks
           /\ lastRecurringCheck' = w.lastRecurringCheck
           /\ pending' = TRUE
    /\ UNCHANGED <<calc, now, watching, handlers>>

\* the file is saved by something else (the note is edited in the editor):
\* the vault raises 'modify'
FileChanged ==
    /\ watching /\ ~pending
    /\ pending' = TRUE
    /\ UNCHANGED <<calc, store, tasks, lastRecurringCheck, now, watching, handlers>>

\* time passes
Tick ==
    /\ ~pending
    /\ now < (Day0 + MaxDays) * TicksPerDay
    /\ now' = now + 1
    /\ UNCHANGED <<calc, store, tasks, lastRecurringCheck, watching, pending, handlers>>

Next ==
    \/ OnOpen
    \/ WatcherLoad
    \/ \E i \in Listed : ToggleTask(i)
    \/ FileChanged
    \/ Tick

Spec == Init /\ [][Next]_vars

(***************************************************************************)
(* The recurring editor: the view is opened, the editor is saved on a      *)
(* template, the watcher loads, time passes (completions are in Spec)      *)
(***************************************************************************)

\* what the user enters in the modal
EditorSettings ==
    { Settings("day", 1, Some(<<2025, 10, 17>>), Null, {}, {}, {}),
      Settings("day", 0, Null, Null, {}, {}, {}),
      Settings("week", 1, Some(<<2025, 10, 18>>), Null, {1}, {}, {}) }

\* a file with one template, and a file with two templates of the same name
\* in two projects, the first with its instance for today
EditStores ==
    { <<HeaderLine,
        TemplateLine("a", Null, Rule(1, "day", Some(<<2025, 10, 17>>), Null, Null, Null, Null))>>,
      <<HeaderLine,
        TemplateLine("a", Some("p"), Rule(1, "day", Some(<<2025, 10, 18>>), Null, Null, Null, Null)),
        TemplateLine("a", Some("q"), Rule(1, "day", Some(<<2025, 10, 18>>), Null, Null, Null, Null)),
        buildRecurringTaskInstance(
            [Rule(1, "day", Some(<<2025, 10, 18>>), Null, Null, Null, Null)
                EXCEPT !.taskName = "a", !.project = Some("p")],
            <<2025, 10, 18>>)>> }

InitEdit ==
    /\ calc = CalcIdle
    /\ store \in EditStores
    /\ tasks = <<>>
    /\ lastRecurringCheck = 0
    /\ now = Day0 * TicksPerDay
    /\ watching = FALSE
    /\ pending = FALSE
    /\ handlers = <<>>

\* the templates of the list: a click on the recurring icon of a template or
\* of one of its occurrences opens the editor on the template
ListedTemplates == {i \in 1..Len(tasks) : tasks[i].isRecurring /\ ~tasks[i].isGeneratedRecurring}

\* Save in the recurring editor opened on a template: the callback of
\* showRecurringEditor with nothing in between (updateTask and its loadTasks,
\* createFirstOccurrence, loadTasks)
SaveRecurring(i, settings) ==
    /\ watching /\ ~pending
    /\ Len(store) + 3 <= MaxLines
    /\ \E w \in {RunSave(World, SaveHandler(store, saveRecurring(tasks[i], settings)), now)} :
           /\ store' = w.store
           /\ tasks' = w.tasks
           /\ lastRecurringCheck' = w.lastRecurringCheck
           /\ pending' = TRUE
    /\ UNCHANGED <<calc, now, watching, handlers>>

NextEdit ==
    \/ OnOpen
    \/ WatcherLoad
    \/ \E i \in ListedTemplates : \E settings \in EditorSettings : SaveRecurring(i, settings)
    \/ FileChanged
    \/ Tick

SpecEdit == InitEdit /\ [][NextEdit]_vars

(***************************************************************************)
(* The handlers interleaved at their awaits                                *)
(***************************************************************************)

MaxHandlers == 3

ConcMaxLines == 7

ConcMaxDays == 1

ConcStores ==
    { <<HeaderLine,
        TemplateLine("a", Null, Rule(1, "day", Some(<<2025, 10, 17>>), Null, Null, Null, Null))>> }

InitConc ==
    /\ calc = CalcIdle
    /\ store \in ConcStores
    /\ tasks = <<>>
    /\ lastRecurringCheck = 0
    /\ now = Day0 * TicksPerDay
    /\ watching = FALSE
    /\ pending = FALSE
    /\ handlers = <<>>

\* onOpen up to the read of its loadTasks
ConcOpen ==
    /\ ~watching /\ handlers = <<>>
    /\ handlers' = <<LoadHandler("open", store)>>
    /\ UNCHANGED <<calc, store, tasks, lastRecurringCheck, now, watching, pending>>

\* a 'modify' event from outside: the watcher's callback up to its read
ConcFileChanged ==
    /\ watching /\ Len(handlers) < MaxHandlers
    /\ handlers' = Append(handlers, LoadHandler("watch", store))
    /\ UNCHANGED <<calc, store, tasks, lastRecurringCheck, now, watching, pending>>

\* a click on a listed checkbox: toggleTask up to its read
ConcToggle(i) ==
    /\ watching /\ Len(handlers) < MaxHandlers
    /\ Len(store) + 3 <= ConcMaxLines
    /\ handlers' = Append(handlers, ToggleHandler(store, tasks[i]))
    /\ UNCHANGED <<calc, store, tasks, lastRecurringCheck, now, watching, pending>>

\* handler k resumes and runs to its next await.  A write raises 'modify', on
\* which the watcher, once registered, starts a loadTasks of its own.
ConcStep(k) ==
    \E r \in {HandlerStep(World, handlers[k], now)} :
        LET finished == r.h.pc = "done"
            spawn == r.w.modified > 0 /\ watching
            rest == IF finished
                    THEN SubSeq(handlers, 1, k - 1) \o SubSeq(handlers, k + 1, Len(handlers))
                    ELSE [handlers EXCEPT ![k] = r.h]
        IN  /\ spawn => Len(handlers) < MaxHandlers
            /\ store' = r.w.store
            /\ tasks' = r.w.tasks
            /\ lastRecurringCheck' = r.w.lastRecurringCheck
            /\ handlers' = IF spawn THEN Append(rest, LoadHandler("watch", r.w.store)) ELSE rest
            /\ watching' = (watching \/ (finished /\ handlers[k].kind = "open"))
            /\ UNCHANGED <<calc, now, pending>>

ConcTick ==
    /\ now < (Day0 + ConcMaxDays) * TicksPerDay
    /\ now' = now + 1
    /\ UNCHANGED <<calc, store, tasks, lastRecurringCheck, watching, pending, handlers>>

NextConc ==
    \/ ConcOpen
    \/ ConcFileChanged
    \/ \E i \in Listed : ConcToggle(i)
    \/ \E k \in 1..Len(handlers) : ConcStep(k)
    \/ ConcTick

SpecConc == InitConc /\ [][NextConc]_vars

(***************************************************************************)
(* Completions interleaved at their awaits: the view is opened, listed     *)
(* tasks are completed, the watcher loads                                  *)
(***************************************************************************)

\* the file may grow to this many lines
ClickMaxLines == 8

\* a click on the checkbox of a listed task that is not done: toggleTask up
\* to its read
ConcComplete(i) ==
    /\ watching /\ Len(handlers) < MaxHandlers
    /\ tasks[i].status = "todo"
    /\ Len(store) + 3 <= ClickMaxLines
    /\ handlers' = Append(handlers, ToggleHandler(store, tasks[i]))
    /\ UNCHANGED <<calc, store, tasks, lastRecurringCheck, now, watching, pending>>

NextClicks ==
    \/ ConcOpen
    \/ \E i \in Listed : ConcComplete(i)
    \/ \E k \in 1..Len(handlers) : ConcStep(k)

SpecClicks == InitConc /\ [][NextClicks]_vars

(***************************************************************************)
(* The loads interleaved at their awaits, without completions: the view is *)
(* opened, the file changes, the watcher loads, time passes                *)
(***************************************************************************)

\* a weekly template on Monday: its next occurrence stays virtual until the
\* pass of the day before writes it
LoadStores ==
    { <<HeaderLine,
        TemplateLine("a", Null, Rule(1, "week", Some(<<2025, 10, 18>>), Null, Some({1}), Null, Null))>> }

InitLoads ==
    /\ calc = CalcIdle
    /\ store \in LoadStores
    /\ tasks = <<>>
    /\ lastRecurringCheck = 0
    /\ now = Day0 * TicksPerDay
    /\ watching = FALSE
    /\ pending = FALSE
    /\ handlers = <<>>

NextLoads ==
    \/ ConcOpen
    \/ ConcFileChanged
    \/ \E k \in 1..Len(handlers) : ConcStep(k)
    \/ ConcTick

SpecLoads == InitLoads /\ [][NextLoads]_vars

(***************************************************************************)
(* The occurrence calculator on its own: one call, run step by step        *)
(***************************************************************************)

MaxInterval == 2

MaxCount == 2

CalcStarts == {Null, Some(<<2025, 10, 1>>), Some(<<2025, 10, 18>>), Some(<<2025, 10, 25>>)}

CalcEnds == {Null, Some(Never), Some(<<2025, 10, 19>>), Some(<<2025, 12, 31>>)}

\* the constraint fields <<recurringWDay, recurringDay, recurringMonth>> tried
\* with each unit
CalcConstraints(u) ==
    CASE u = "week"  -> {<<Null, Null, Null>>, <<Some({0}), Null, Null>>,
                         <<Some({1}), Null, Null>>,
                         <<Some({1, 3, 5}), Null, Null>>}
      [] u = "month" -> {<<Null, Null, Null>>, <<Null, Some({15}), Null>>,
                         <<Null, Some({1, 15}), Null>>,
                         <<Null, Some({15, 30}), Null>>}
      [] u = "year"  -> {<<Null, Null, Null>>, <<Null, Null, Some({<<12, 25>>})>>,
                         <<Null, Null, Some({<<10, 18>>, <<11, 31>>})>>}
      [] OTHER       -> {<<Null, Null, Null>>}

\* every interval from 1, unit, start, end and constraint above
RegularRules ==
    UNION { { Rule(n, u, st, en, c[1], c[2], c[3]) : c \in CalcConstraints(u) } :
            <<n, u, st, en>> \in (1..MaxInterval) \X Units \X CalcStarts \X CalcEnds }

\* a stored pattern such as recurring::0day
ZeroRules ==
    { Rule(0, u, st, Null, Null, Null, Null) :
        <<u, st>> \in Units \X {Null, Some(<<2025, 10, 1>>)} }

\* a start more than MAX_ITERATIONS days back
FarPastRules ==
    { Rule(1, "day", Some(<<2022, 1, 1>>), Null, Null, Null, Null),
      Rule(2, "day", Some(<<2022, 1, 1>>), Null, Null, Null, Null),
      Rule(1, "week", Some(<<2022, 1, 1>>), Some(Never), Some({1}), Null, Null),
      Rule(1, "day", Some(<<2022, 1, 1>>), Some(<<2024, 12, 31>>), Null, Null, Null) }

\* a constraint that no date, or no date within MAX_ITERATIONS days, satisfies
CeilingRules ==
    { Rule(1, "month", Null, Null, Null, Some({32}), Null),
      Rule(1, "year", Null, Null, Null, Null, Some({<<2, 30>>})),
      Rule(1, "year", Null, Null, Null, Null, Some({<<2, 29>>})) }

\* a Task whose pattern is not <digits><day|week|month|year>, and a task
\* that is not recurring
BadRules ==
    { Rule(1, "fortnight", Null, Null, Null, Null, Null),
      [NoFields EXCEPT !.dueDate = Some(<<2025, 10, 20>>)] }

\* a constraint on a rule of another unit: weekdays on a monthly rule, days
\* of the month on a weekly rule, dates of the year on a daily rule
MismatchRules ==
    { Rule(1, "month", st, Null, Some({1}), Null, Null) : st \in CalcStarts } \cup
    { Rule(1, "week", st, Null, Null, Some({15}), Null) : st \in CalcStarts } \cup
    { Rule(1, "day", st, Null, Null, Null, Some({<<12, 25>>})) : st \in CalcStarts }

\* a constraint that is present and empty, as wday::[someday] and day::[x] parse
EmptySetRules ==
    { Rule(n, "week", st, en, Some({}), Null, Null) :
        <<n, st, en>> \in (1..MaxInterval) \X CalcStarts \X {Null, Some(<<2025, 12, 31>>)} } \cup
    { Rule(n, "month", st, en, Null, Some({}), Null) :
        <<n, st, en>> \in (1..MaxInterval) \X CalcStarts \X {Null, Some(<<2025, 12, 31>>)} } \cup
    { Rule(n, "year", st, en, Null, Null, Some({})) :
        <<n, st, en>> \in (1..MaxInterval) \X CalcStarts \X {Null, Some(<<2025, 12, 31>>)} }

CalcRules ==
    RegularRules \cup ZeroRules \cup FarPastRules \cup CeilingRules \cup BadRules
        \cup MismatchRules \cup EmptySetRules

\* nextAfter does not read the start date
\* yearly on 01-31 and on the leap day
LeapRules ==
    { Rule(1, "year", Null, en, Null, Null, Some({<<1, 31>>, <<2, 29>>})) :
        en \in {Null, Some(<<2025, 12, 31>>)} }

AfterRules == {r \in CalcRules : r.recurringStarting = Null} \cup LeapRules

AfterDates ==
    {<<2025, 10, 18>>, <<2025, 10, 20>>, <<2025, 1, 31>>, <<2025, 10, 1>>, <<2025, 2, 20>>}

InitCalc ==
    /\ calc = CalcIdle
    /\ store = <<>>
    /\ tasks = <<>>
    /\ lastRecurringCheck = 0
    /\ now = Day0 * TicksPerDay
    /\ watching = FALSE
    /\ pending = FALSE
    /\ handlers = <<>>

Idle == UNCHANGED <<store, tasks, lastRecurringCheck, now, watching, pending, handlers>>

CallOccurrences ==
    /\ calc.fn = "none"
    /\ \E task \in CalcRules, count \in 1..MaxCount :
          calc' = BeginOccurrences(task, count, TodayOf(now))
    /\ Idle

CallAfterDate ==
    /\ calc.fn = "none"
    /\ \E task \in AfterRules, afterDate \in AfterDates :
          calc' = BeginAfterDate(task, afterDate)
    /\ Idle

AnchorLoop == calc.pc = "anchor" /\ calc' = AnchorStep(calc) /\ Idle

CatchUpLoop == calc.pc = "catchup" /\ calc' = CatchUpStep(calc) /\ Idle

FinalSnapLoop == calc.pc = "final" /\ calc' = FinalSnapStep(calc) /\ Idle

GenerateLoop == calc.pc = "generate" /\ calc' = GenerateStep(calc) /\ Idle

ReSnapLoop == calc.pc = "resnap" /\ calc' = ReSnapStep(calc) /\ Idle

AfterSnapLoop == calc.pc = "snap" /\ calc' = AfterSnapStep(calc) /\ Idle

NextCalc ==
    \/ CallOccurrences
    \/ CallAfterDate
    \/ AnchorLoop
    \/ CatchUpLoop
    \/ FinalSnapLoop
    \/ GenerateLoop
    \/ ReSnapLoop
    \/ AfterSnapLoop

\* the calculator is synchronous code: a call that has started keeps running
SpecCalc == InitCalc /\ [][NextCalc]_vars /\ WF_vars(NextCalc)

\* the call has returned
Returned == calc.fn # "none" /\ calc.pc = "done"

\* C1: no loop counter passes the ceiling, and every call returns
C1_Terminates ==
    /\ [](calc.safetyCounter <= MAX_ITERATIONS /\ calc.innerSafety <= MAX_ITERATIONS)
    /\ (calc.fn # "none") ~> (calc.pc = "done")

\* a call that a day-by-day loop left at the ceiling has returned
C1_Witness == Returned /\ calc.safetyCounter = MAX_ITERATIONS

\* the dates the returned call hands back: the occurrences, or the next date
ReturnedDates ==
    IF calc.fn = "occ" THEN {calc.occurrences[k] : k \in 1..Len(calc.occurrences)}
    ELSE IF calc.result # Null THEN {calc.result[1]}
    ELSE {}

\* C5: every returned date satisfies the rule's constraint
C5_ReturnedDatesMatch ==
    Returned =>
        \A d \in ReturnedDates :
            matchesRecurrenceConstraints(ParseDate(d), calc.task[1], calc.unit)

\* C6: no date returned by calculateNextOccurrences is before today, however
\* far back the rule starts (stated for the intervals of at least 1: an
\* interval of 0 is C19's case)
C6_NoPastOccurrence ==
    Returned /\ calc.fn = "occ" /\ calc.interval >= 1 =>
        \A d \in ReturnedDates : ParseDate(d) >= calc.today

\* C7: the sequence returned by calculateNextOccurrences is strictly
\* increasing, whatever the interval of the rule
C7_StrictlyIncreasing ==
    Returned /\ calc.fn = "occ" =>
        \A k \in 1..(Len(calc.occurrences) - 1) :
            ParseDate(calc.occurrences[k]) < ParseDate(calc.occurrences[k + 1])

\* the rule of the call has an end date
HasEnd == calc.task # Null /\ calc.task[1].recurringEnding # Null
          /\ calc.task[1].recurringEnding[1] # Never

\* C8: no returned date is after the rule's end date
C8_NotAfterEnd ==
    Returned /\ HasEnd =>
        \A d \in ReturnedDates : ParseDate(d) <= ParseDate(calc.task[1].recurringEnding[1])

\* nextAfter found its next date past the end and returned null, and
\* calculateNextOccurrences stopped at the end with fewer dates than asked
C8_Witness ==
    /\ Returned /\ HasEnd
    /\ calc.currentDate > ParseDate(calc.task[1].recurringEnding[1])
    /\ \/ calc.fn = "after" /\ calc.result = Null
       \/ calc.fn = "occ" /\ Len(calc.occurrences) = 1 /\ calc.count = 2

(***************************************************************************)
(* Instances of a template in the file                                     *)
(***************************************************************************)

\* line k of the content is a template
IsTemplateLine(content, k) == content[k].kind = "task" /\ content[k].f.isRecurring

\* line k of the content is an instance (a task line that is no template) of
\* the template on line t: same name, project and section
IsInstanceOf(content, k, t) ==
    /\ content[k].kind = "task" /\ ~content[k].f.isRecurring
    /\ content[k].f.dueDate # Null
    /\ content[k].f.taskName = content[t].f.taskName
    /\ content[k].f.project = content[t].f.project
    /\ content[k].f.section = content[t].f.section

\* the lines that hold an instance of template line t for the date
InstancesFor(content, t, date) ==
    {k \in 1..Len(content) : IsInstanceOf(content, k, t) /\ content[k].f.dueDate = Some(date)}

\* the template on line t has a pattern with an interval of at least 1
PositiveInterval(content, t) ==
    /\ content[t].f.recurringPattern # Null
    /\ content[t].f.recurringPattern[1].interval >= 1

NoDuplicateInstance(content) ==
    \A t \in 1..Len(content) : IsTemplateLine(content, t) /\ PositiveInterval(content, t) =>
        \A k \in 1..Len(content) : IsInstanceOf(content, k, t) =>
            Cardinality(InstancesFor(content, t, content[k].f.dueDate[1])) = 1

\* C2: after any sequence of operations run one at a time, the file never
\* holds two instance records of one template for one due date (stated for
\* the templates whose interval is at least 1: an interval of 0 is C19's case)
C2_NoDuplicateInstance == NoDuplicateInstance(store)

\* C3: when the interleaved loads and completions have all returned, the file
\* holds no two instance records of one template for one due date (stated, as
\* C2, for the templates whose interval is at least 1)
C3_NoDuplicateInterleaved == handlers = <<>> => NoDuplicateInstance(store)

\* the instance lines of the content with the identity of the task, the due
\* date and the status
Records(content, task, date, status) ==
    {k \in 1..Len(content) :
        /\ content[k].kind = "task" /\ ~content[k].f.isRecurring
        /\ content[k].f.taskName = task.taskName
        /\ content[k].f.project = task.project
        /\ content[k].f.section = task.section
        /\ content[k].f.dueDate = Some(date)
        /\ content[k].f.status = status}

\* the dates that instance lines of either content carry
DueDates(a, b) ==
    {a[k].f.dueDate[1] : k \in {j \in 1..Len(a) : a[j].f.dueDate # Null}}
    \cup {b[k].f.dueDate[1] : k \in {j \in 1..Len(b) : b[j].f.dueDate # Null}}

Today == TodayOf(now)

\* what one materialization pass on a fresh parse of the content appends
PassAppends(content, today) == NewTasksToAdd(parseTasks(content), today)

\* C4: a second materialization pass on a fresh parse, the same day or the
\* next, writes no instance for a (template, date) the first pass wrote, and
\* the same day it writes nothing at all
C4_PassIdempotent ==
    LET first == PassAppends(store, Today)
        after == store \o first
    IN  /\ PassAppends(after, Today) = <<>>
        /\ \A k \in 1..Len(first) :
              \A j \in 1..Len(PassAppends(after, Today + 1)) :
                  PassAppends(after, Today + 1)[j] # first[k]

\* two passes, a day apart, have run on the daily template with no completion
\* in between: each of their dates has one instance
C4_Witness ==
    /\ lastRecurringCheck >= (Day0 + 1) * TicksPerDay
    /\ \A k \in 1..Len(store) : store[k].kind = "task" => store[k].f.status = "todo"
    /\ \E t \in 1..Len(store) :
          /\ IsTemplateLine(store, t)
          /\ Cardinality(InstancesFor(store, t, <<2025, 10, 18>>)) = 1
          /\ Cardinality(InstancesFor(store, t, <<2025, 10, 19>>)) = 1
          /\ Cardinality(InstancesFor(store, t, <<2025, 10, 20>>)) = 1

\* the listed todo instances of a template: virtual occurrences, and file
\* lines that are no template but carry a template's name, project and section
ListedInstances ==
    {i \in Listed :
        /\ tasks[i].status = "todo" /\ tasks[i].dueDate # Null
        /\ (tasks[i].isGeneratedRecurring \/ ~tasks[i].isRecurring)
        /\ FindTemplate(tasks, tasks[i]) # Null}

NextAfter(i) == calculateNextOccurrenceAfterDate(FindTemplate(tasks, tasks[i])[1], tasks[i].dueDate[1])

\* the todo instance lines for the date after the toggle, less those before
\* it, where before it the toggled line itself does not count
TodoGain(i, date) ==
    LET written == ToggleLines(store, tasks, tasks[i])
        before  == Records(store, tasks[i], date, "todo")
        toggled == IF tasks[i].lineNumber >= 0 /\ tasks[i].dueDate = Some(date) THEN 1 ELSE 0
    IN  Cardinality(Records(written, tasks[i], date, "todo")) - (Cardinality(before) - toggled)

\* C9: completing an instance due d, when a next occurrence exists, writes
\* exactly one new todo instance, due nextAfter(rule, d), and that date is
\* later than d
C9_CompletionWritesNext ==
    \A i \in ListedInstances :
        NextAfter(i) # Null =>
            /\ ParseDate(NextAfter(i)[1]) > ParseDate(tasks[i].dueDate[1])
            /\ \A date \in DueDates(store, ToggleLines(store, tasks, tasks[i])) :
                  TodoGain(i, date) = (IF date = NextAfter(i)[1] THEN 1 ELSE 0)

\* the virtual occurrences in the list
ListedVirtuals == {i \in Listed : tasks[i].isGeneratedRecurring /\ tasks[i].lineNumber = -1}

\* the done records for the virtual's date, and the todo records for the
\* date, that the toggle's write adds to the content it read
DoneAdded(i) ==
    Cardinality(Records(ToggleLines(store, tasks, tasks[i]), tasks[i], tasks[i].dueDate[1], "done"))
    - Cardinality(Records(store, tasks[i], tasks[i].dueDate[1], "done"))

TodoLines(content) ==
    {k \in 1..Len(content) : content[k].kind = "task" /\ content[k].f.status = "todo"}

TodoAdded(i) ==
    Cardinality(TodoLines(ToggleLines(store, tasks, tasks[i]))) - Cardinality(TodoLines(store))

\* C10: the one write of a completed virtual occurrence holds the completed
\* record and the next occurrence together, or neither
C10_CompletedWithNext ==
    \A i \in ListedVirtuals :
        \/ DoneAdded(i) = 1 /\ TodoAdded(i) = 1
        \/ ToggleLines(store, tasks, tasks[i]) = store

\* the virtual occurrence of 2025-10-18 has been completed next to the
\* instances the pass had written for the 18th and the 19th: the file holds
\* its done record and the instance of the 19th that came with it
C10_Witness ==
    /\ Len(store) = 7
    /\ \E t \in 1..Len(store) :
          /\ IsTemplateLine(store, t)
          /\ Cardinality(Records(store, store[t].f, <<2025, 10, 18>>, "done")) = 1
          /\ Cardinality(Records(store, store[t].f, <<2025, 10, 18>>, "todo")) = 1
          /\ Cardinality(Records(store, store[t].f, <<2025, 10, 19>>, "todo")) = 2

(***************************************************************************)
(* Virtual occurrences                                                     *)
(***************************************************************************)

\* the virtual occurrences of the list that carry the identity of task t
VirtualsOf(taskList, t) ==
    {v \in 1..Len(taskList) :
        /\ taskList[v].isGeneratedRecurring
        /\ taskList[v].taskName = taskList[t].taskName
        /\ taskList[v].project = taskList[t].project
        /\ taskList[v].section = taskList[t].section}

\* the instance lines of the content for the template and the date, todo or done
Persisted(content, template, date) ==
    Records(content, template, date, "todo") \cup Records(content, template, date, "done")

\* each template of the list has at most one virtual occurrence, and has one,
\* for its next date, exactly when the content holds no instance for that date
VirtualsMatchStore(taskList, content, today) ==
    \A t \in 1..Len(taskList) :
        taskList[t].isRecurring /\ ~taskList[t].isGeneratedRecurring =>
            LET occ == calculateNextOccurrences(taskList[t], 1, today)
            IN  /\ Cardinality(VirtualsOf(taskList, t)) <= 1
                /\ occ = <<>> => VirtualsOf(taskList, t) = {}
                /\ occ # <<>> =>
                      ((\E v \in VirtualsOf(taskList, t) : taskList[v].dueDate = Some(occ[1]))
                       <=> Persisted(content, taskList[t], occ[1]) = {})

\* a load run to its return on the file as it is
LoadEnds == RunHandler(World, LoadHandler("watch", store), now)

\* C11: at the end of a load, a template has a virtual occurrence for its
\* next date if and only if the file holds no instance for that date, and it
\* has at most one
C11_VirtualIffNotPersisted == VirtualsMatchStore(LoadEnds.tasks, LoadEnds.store, Today)

\* the pass of a load started now is gated off
GatedOff == now - lastRecurringCheck < oneDay

\* the virtual occurrences of a task list
Virtuals(taskList) == {v \in 1..Len(taskList) : taskList[v].isGeneratedRecurring}

\* C12: a load whose pass is gated off leaves the file as it was and raises
\* no 'modify', and no virtual occurrence, in the list or at the end of a
\* load, has a line number other than -1
C12_VirtualsNotStored ==
    /\ GatedOff => LoadEnds.store = store /\ LoadEnds.modified = 0
    /\ \A v \in Virtuals(tasks) : tasks[v].lineNumber = -1
    /\ \A v \in Virtuals(LoadEnds.tasks) : LoadEnds.tasks[v].lineNumber = -1

\* a gated load has ended with a virtual occurrence in the list: the Monday
\* of the weekly template, which no pass has written yet
C12_Witness ==
    /\ watching /\ GatedOff /\ ~pending
    /\ LoadEnds.tasks = tasks
    /\ \E v \in Virtuals(tasks) :
          /\ tasks[v].dueDate = Some(<<2025, 10, 20>>)
          /\ Persisted(store, tasks[v], <<2025, 10, 20>>) = {}

\* every template of the content has an interval of at least 1
PositiveIntervals(content) ==
    \A t \in 1..Len(content) : IsTemplateLine(content, t) => PositiveInterval(content, t)

\* C13: every instance a materialization pass writes is due today or
\* tomorrow, as of the day of the pass (stated for the templates whose
\* interval is at least 1: an interval of 0 is C19's case)
C13_PassWritesTodayOrTomorrow ==
    PositiveIntervals(store) =>
        \A k \in 1..Len(PassAppends(store, Today)) :
            /\ ParseDate(PassAppends(store, Today)[k].f.dueDate[1]) >= Today
            /\ ParseDate(PassAppends(store, Today)[k].f.dueDate[1]) <= Today + 1

\* a handler in flight passes the gate and enters the body of the pass
PassBegins ==
    \E k \in 1..Len(handlers) :
        /\ Len(handlers') = Len(handlers)
        /\ handlers[k].pc = "load_read"
        /\ handlers'[k].pc = "pass_read"

\* C14: however the loads interleave, the body of the pass begins only when
\* at least oneDay has gone by since the pass before it began, and
\* lastRecurringCheck, the time the last pass began, changes at no other step
C14_PassOncePerDay ==
    /\ [][PassBegins => now - lastRecurringCheck >= oneDay /\ lastRecurringCheck' = now]_vars
    /\ [][lastRecurringCheck' # lastRecurringCheck => PassBegins]_vars

\* a second pass has begun, a day after the one of the opening, while
\* another load is in flight
C14_Witness ==
    /\ lastRecurringCheck >= Day0 * TicksPerDay + oneDay
    /\ \E k \in 1..Len(handlers) : handlers[k].pc = "pass_read"
    /\ \E k \in 1..Len(handlers) : handlers[k].pc # "pass_read" /\ handlers[k].kind = "watch"

\* the list holds an instance, virtual or materialized, with the name and
\* the due date of the template
TemplateHasInstance(taskList, task) ==
    \E i \in 1..Len(taskList) :
        /\ taskList[i].isGeneratedRecurring \/ ~taskList[i].isRecurring
        /\ taskList[i].taskName = task.taskName
        /\ taskList[i].dueDate = task.dueDate

\* C15: the views leave a template out if and only if the list holds an
\* instance, virtual or materialized, with its name and its due date
C15_TemplateHiddenIffInstance ==
    \A i \in 1..Len(tasks) :
        tasks[i].isRecurring /\ ~tasks[i].isGeneratedRecurring =>
            (HiddenTemplate(tasks, tasks[i]) <=> TemplateHasInstance(tasks, tasks[i]))

(***************************************************************************)
(* The dates the calculator must return                                    *)
(***************************************************************************)

\* how far past a start the anchor is looked for
AnchorSpan == 400

\* the first day at or after the start of the rule that satisfies its
\* constraint (Null when none does within AnchorSpan days)
AnchorOf(task, unit) ==
    LET start == ParseDate(task.recurringStarting[1])
        cands == {d \in start..(start + AnchorSpan) :
                     matchesRecurrenceConstraints(d, task, unit)}
    IN  IF cands = {} THEN Null ELSE Some(Min(cands))

\* the call that returned was calculateNextOccurrences on a rule whose start
\* is today or later, and it returned a date
StartsAhead ==
    /\ Returned /\ calc.fn = "occ"
    /\ calc.task[1].recurringStarting # Null
    /\ calc.occurrences # <<>>
    /\ ParseDate(calc.task[1].recurringStarting[1]) >= calc.today

\* C16: for a rule that starts today or later, the first date returned is
\* the first day at or after the start that satisfies the constraint
C16_FirstIsAnchor ==
    StartsAhead =>
        /\ AnchorOf(calc.task[1], calc.unit) # Null
        /\ calc.occurrences[1] = formatDate(AnchorOf(calc.task[1], calc.unit)[1])

\* weekly on Sunday starting Saturday 2025-10-18 gave Sunday 2025-10-19, and
\* monthly on the 15th starting 2025-10-18 gave 2025-11-15
C16_Witness ==
    /\ StartsAhead
    /\ calc.task[1].recurringStarting = Some(<<2025, 10, 18>>)
    /\ \/ /\ calc.unit = "week" /\ calc.task[1].recurringWDay = Some({0})
          /\ calc.occurrences[1] = <<2025, 10, 19>>
       \/ /\ calc.unit = "month" /\ calc.task[1].recurringDay = Some({15})
          /\ calc.occurrences[1] = <<2025, 11, 15>>

\* calculateNextOccurrenceAfterDate returned for a weekly rule
WeeklyAfter ==
    /\ Returned /\ calc.fn = "after" /\ calc.unit = "week"
    /\ calc.task[1].recurringWDay # Null

\* the first of the 6 days after date d whose weekday is in the set
NextInWeek(d, wdays) == Min({e \in (d + 1)..(d + 6) : getDay(e) \in wdays})

WithinEnd(d) == calc.endDate = Null \/ d <= calc.endDate[1]

C18_SingleDayAdvancesByInterval ==
    /\ WeeklyAfter
    /\ calc.interval >= 1
    /\ Cardinality(calc.task[1].recurringWDay[1]) = 1
    /\ getDay(ParseDate(calc.afterDate[1])) \in calc.task[1].recurringWDay[1]
    => LET e == ParseDate(calc.afterDate[1]) + 7 * calc.interval
       IN  calc.result = IF WithinEnd(e) THEN Some(formatDate(e)) ELSE Null

\* interval 2 on Mondays: completing Monday 2025-10-20 gave 2025-11-03
C18_Witness ==
    /\ WeeklyAfter
    /\ calc.interval = 2
    /\ calc.task[1].recurringWDay = Some({1})
    /\ calc.afterDate = Some(<<2025, 10, 20>>)
    /\ calc.result = Some(<<2025, 11, 3>>)

\* the same task with interval 1
WithIntervalOne(task) ==
    [task EXCEPT !.recurringPattern = Some([task.recurringPattern[1] EXCEPT !.interval = 1])]

\* the call that returned was made on a rule with an interval below 1
ZeroInterval ==
    /\ Returned
    /\ calc.task[1].isRecurring /\ calc.task[1].recurringPattern # Null
    /\ calc.task[1].recurringPattern[1].unit \in Units
    /\ calc.task[1].recurringPattern[1].interval < 1

\* C19: a rule with an interval below 1 is rejected (nothing is returned) or
\* gives what the same rule with interval 1 gives
C19_ZeroIntervalRejectedOrOne ==
    ZeroInterval =>
        IF calc.fn = "occ"
        THEN \/ calc.occurrences = <<>>
             \/ calc.occurrences =
                  calculateNextOccurrences(WithIntervalOne(calc.task[1]),
                                           calc.count, calc.today)
        ELSE \/ calc.result = Null
             \/ calc.result =
                  calculateNextOccurrenceAfterDate(WithIntervalOne(calc.task[1]),
                                                   calc.afterDate[1])

\* the call that returned was made on a task that is not recurring or whose
\* pattern does not parse
NotARule ==
    /\ Returned
    /\ \/ ~calc.task[1].isRecurring
       \/ calc.task[1].recurringPattern = Null
       \/ calc.task[1].recurringPattern[1].unit \notin Units

\* C20: a task that is not recurring, or whose pattern does not parse, makes
\* calculateNextOccurrences return no date and calculateNextOccurrenceAfterDate
\* return nothing, and the call returns at once
C20_NotARuleGivesNothing ==
    /\ NotARule => calc.occurrences = <<>> /\ calc.result = Null
    /\ calc.fn # "none" /\ calc.pc # "done" =>
          /\ calc.task[1].isRecurring /\ calc.task[1].recurringPattern # Null
          /\ calc.task[1].recurringPattern[1].unit \in Units

\* calculateNextOccurrenceAfterDate was called on a Task whose pattern does
\* not parse and returned nothing
C20_Witness ==
    /\ NotARule
    /\ calc.occurrences = <<>> /\ calc.result = Null
    /\ calc.fn = "after"
    /\ calc.task[1].recurringPattern # Null

\* the task of the call is a rule (recurring, with a pattern that parses)
IsRule ==
    /\ calc.task # Null
    /\ calc.task[1].isRecurring /\ calc.task[1].recurringPattern # Null
    /\ calc.task[1].recurringPattern[1].unit \in Units

\* the rule carries a non-empty constraint of a unit other than its own
Mismatched(task, unit) ==
    \/ unit # "week"  /\ HasValues(task.recurringWDay)
    \/ unit # "month" /\ HasValues(task.recurringDay)
    \/ unit # "year"  /\ HasValues(task.recurringMonth)

\* C21: a rule whose constraint does not match its unit makes
\* calculateNextOccurrences return an empty sequence
C21_MismatchGivesNothing ==
    Returned /\ calc.fn = "occ" /\ IsRule /\ Mismatched(calc.task[1], calc.unit)
        => calc.occurrences = <<>>

\* the rule carries a constraint that is present and empty
EmptyConstraint(task) ==
    \/ task.recurringWDay = Some({})
    \/ task.recurringDay = Some({})
    \/ task.recurringMonth = Some({})

\* the same rule with no constraint at all
Unconstrained(task) ==
    [task EXCEPT !.recurringWDay = Null, !.recurringDay = Null, !.recurringMonth = Null]

\* the call that returned was made on a rule with an empty constraint
EmptyReturned == Returned /\ IsRule /\ EmptyConstraint(calc.task[1])

C23_EmptyWeekdaysGiveNothing ==
    /\ Returned /\ calc.fn = "occ" /\ IsRule
    /\ calc.unit = "week" /\ calc.task[1].recurringWDay = Some({})
    => /\ calc.occurrences = <<>>
       /\ calc.safetyCounter < MAX_ITERATIONS

\* the first day at or after max(start, today) that satisfies the constraint
\* of the rule: no date before it can be due (the empty set when no day within
\* AnchorSpan satisfies it)
FirstPossible(task, unit, today) ==
    LET lo == IF task.recurringStarting = Null THEN today
              ELSE IF ParseDate(task.recurringStarting[1]) > today
                   THEN ParseDate(task.recurringStarting[1]) ELSE today
        cands == {d \in lo..(lo + AnchorSpan) :
                     matchesRecurrenceConstraints(d, task, unit)}
    IN  IF cands = {} THEN {} ELSE {Min(cands)}

\* the end date of the rule is before the first date that can be due
EndsBeforeFirst ==
    /\ Returned /\ calc.fn = "occ" /\ IsRule
    /\ calc.endDate # Null
    /\ \A d \in FirstPossible(calc.task[1], calc.unit, calc.today) : calc.endDate[1] < d

\* C24: a rule whose end date is before the first date at or after
\* max(start, today) that can be emitted, every rule with end < start
\* included, makes calculateNextOccurrences return an empty sequence
C24_EndedRuleGivesNothing == EndsBeforeFirst => calc.occurrences = <<>>

(***************************************************************************)
(* What the engine keeps in the store                                      *)
(***************************************************************************)

\* a record without its checkbox: identity, due date and rule fields
Unchecked(line) == [line.f EXCEPT !.status = "todo"]

\* the template records of the content
TemplateRecords(content) ==
    {Unchecked(content[k]) : k \in {j \in 1..Len(content) : IsTemplateLine(content, j)}}

IsInstanceLine(content, k) ==
    /\ content[k].kind = "task" /\ ~content[k].f.isRecurring
    /\ content[k].f.dueDate # Null

\* the lines of the content that hold the instance record r
InstanceLines(content, r) ==
    {k \in 1..Len(content) : IsInstanceLine(content, k) /\ Unchecked(content[k]) = r}

\* C25: no load, materialization pass, completion or un-completion removes a
\* template record or changes its rule fields, and none lowers the number of
\* records of any (identity, date) instance
C25_NothingRemoved ==
    [][/\ TemplateRecords(store') = TemplateRecords(store)
       /\ \A k \in 1..Len(store) : IsInstanceLine(store, k) =>
              Cardinality(InstanceLines(store', Unchecked(store[k])))
                >= Cardinality(InstanceLines(store, Unchecked(store[k])))]_vars

\* a materialized instance was completed: its line was taken out and put back
\* at the bottom as done, below the template and the instances still to do
C25_Witness ==
    /\ Len(store) >= 6
    /\ IsInstanceLine(store, Len(store)) /\ store[Len(store)].f.status = "done"
    /\ \E t \in 1..Len(store) : IsTemplateLine(store, t) /\ store[t].f.status = "todo"
    /\ \E k \in 1..(Len(store) - 1) : IsInstanceLine(store, k) /\ store[k].f.status = "todo"

(***************************************************************************)
(* The occurrences a view lists                                            *)
(***************************************************************************)

\* template t of the task list has no end date
NoEndDate(t) == t.recurringEnding = Null \/ t.recurringEnding = Some(Never)

\* the listed occurrences of template t that are still to do: virtual ones
\* and lines of the file
OpenOccurrences(t) ==
    {i \in Listed :
        /\ tasks[i].status = "todo" /\ tasks[i].dueDate # Null
        /\ (tasks[i].isGeneratedRecurring \/ ~tasks[i].isRecurring)
        /\ tasks[i].taskName = t.taskName
        /\ tasks[i].project = t.project
        /\ tasks[i].section = t.section}

\* an occurrence of template t has been completed
CompletedOnce(t) ==
    \E i \in 1..Len(tasks) :
        /\ tasks[i].status = "done" /\ ~tasks[i].isRecurring
        /\ tasks[i].taskName = t.taskName

\* C26: once an occurrence of a template with no end date has been completed
\* and the load that follows has finished, exactly one occurrence of the
\* template that is still to do is listed
C26_OneOpenOccurrence ==
    watching /\ ~pending =>
        \A k \in 1..Len(tasks) :
            /\ tasks[k].isRecurring /\ ~tasks[k].isGeneratedRecurring
            /\ NoEndDate(tasks[k]) /\ CompletedOnce(tasks[k])
            => Cardinality(OpenOccurrences(tasks[k])) = 1

(***************************************************************************)
(* The spacing of the returned dates                                       *)
(***************************************************************************)

\* calculateNextOccurrences returned for a rule by the day or by the week
DayOrWeekReturned ==
    Returned /\ calc.fn = "occ" /\ IsRule /\ calc.unit \in {"day", "week"}

\* the days between two occurrences of the rule
StepDays == IF calc.unit = "week" THEN 7 * calc.interval ELSE calc.interval

\* the date the rule counts from: its start, today when it has none
CountedFrom ==
    IF calc.task[1].recurringStarting = Null THEN calc.today
    ELSE ParseDate(calc.task[1].recurringStarting[1])

\* the rule has no constraint of its own unit
NoOwnConstraint ==
    /\ ~(calc.unit = "week" /\ HasValues(calc.task[1].recurringWDay))
    /\ ~(calc.unit = "month" /\ HasValues(calc.task[1].recurringDay))
    /\ ~(calc.unit = "year" /\ HasValues(calc.task[1].recurringMonth))

\* C27: for a rule by the day or by the week, two consecutive returned dates
\* are exactly interval days, or 7 * interval days, apart, and without a
\* constraint every returned date is a whole number of steps from the start
C27_EveryNthFromStart ==
    DayOrWeekReturned =>
        /\ \A k \in 1..(Len(calc.occurrences) - 1) :
              ParseDate(calc.occurrences[k + 1]) - ParseDate(calc.occurrences[k]) = StepDays
        /\ NoOwnConstraint =>
              \A k \in 1..Len(calc.occurrences) :
                  IF StepDays = 0
                  THEN ParseDate(calc.occurrences[k]) = CountedFrom
                  ELSE (ParseDate(calc.occurrences[k]) - CountedFrom) % StepDays = 0

\* every 2 days from 2025-10-01, asked on 2025-10-18 (17 days on), gave
\* 2025-10-19 and 2025-10-21
C27_Witness ==
    /\ DayOrWeekReturned /\ NoOwnConstraint
    /\ calc.unit = "day" /\ calc.interval = 2
    /\ calc.task[1].recurringStarting = Some(<<2025, 10, 1>>)
    /\ calc.occurrences = <<<<2025, 10, 19>>, <<2025, 10, 21>>>>

(***************************************************************************)
(* The next occurrence in the same month and in the same year              *)
(***************************************************************************)

\* the number of days of month m of year y
DaysInMonth(y, m) == MakeDate(y, m + 1, 1) - MakeDate(y, m, 1)

\* the date calculateNextOccurrenceAfterDate was given
After == ParseDate(calc.afterDate[1])

\* calculateNextOccurrenceAfterDate returned for a monthly rule with several
\* days of the month
MonthlyAfter ==
    /\ Returned /\ calc.fn = "after" /\ IsRule /\ calc.unit = "month"
    /\ calc.task[1].recurringDay # Null
    /\ Cardinality(calc.task[1].recurringDay[1]) > 1

\* the listed days after the day of After that month has
LaterDays ==
    {v \in calc.task[1].recurringDay[1] :
        v > getDate(After) /\ v <= DaysInMonth(getFullYear(After), getMonth1(After))}

\* the first day at or after date d that is on a listed day of the month
SnapToDay(d) ==
    Min({e \in d..(d + AnchorSpan) : getDate(e) \in calc.task[1].recurringDay[1]})

\* the result for date e: e when it is within the end date
IfWithinEnd(e) == IF WithinEnd(e) THEN Some(formatDate(e)) ELSE Null

\* C28: for a monthly rule with several days, nextAfter(d) is the date of d's
\* month on the smallest listed day after d's that the month has, when it is
\* within the end date; when there is no such day it is the first listed day
\* at or after d advanced by one interval
C28_NextDayOfSameMonth ==
    MonthlyAfter =>
        IF LaterDays # {}
        THEN calc.result =
               IfWithinEnd(MakeDate(getFullYear(After), getMonth1(After), Min(LaterDays)))
        ELSE calc.result =
               IfWithinEnd(SnapToDay(MakeDate(getFullYear(After),
                                              getMonth1(After) + calc.interval,
                                              getDate(After))))

\* on the 15th and the 30th: after 2025-10-01 the result was 2025-10-15, and
\* after 2025-02-20, February having no 30th, it was 2025-03-30
C28_Witness ==
    /\ MonthlyAfter /\ calc.interval = 1
    /\ calc.task[1].recurringDay = Some({15, 30})
    /\ \/ calc.afterDate = Some(<<2025, 10, 1>>) /\ calc.result = Some(<<2025, 10, 15>>)
       \/ calc.afterDate = Some(<<2025, 2, 20>>) /\ calc.result = Some(<<2025, 3, 30>>)

\* calculateNextOccurrenceAfterDate returned for a yearly rule with several
\* dates
YearlyAfter ==
    /\ Returned /\ calc.fn = "after" /\ IsRule /\ calc.unit = "year"
    /\ calc.task[1].recurringMonth # Null
    /\ Cardinality(calc.task[1].recurringMonth[1]) > 1

\* the listed (month, day) values that sort after that of After
LaterDates ==
    {md \in calc.task[1].recurringMonth[1] :
        MonthDayLess(<<getMonth1(After), getDate(After)>>, md)}

\* the smallest of them
NextListed == CHOOSE p \in LaterDates : \A q \in LaterDates : p = q \/ MonthDayLess(p, q)

\* C29: for a yearly rule with several dates, nextAfter(d) has the month and
\* the day of the smallest listed (month, day) after d's and the year of d,
\* when that date is within the end date
C29_NextDateOfSameYear ==
    YearlyAfter /\ LaterDates # {}
    /\ WithinEnd(MakeDate(getFullYear(After), NextListed[1], NextListed[2]))
    => calc.result = Some(<<getFullYear(After), NextListed[1], NextListed[2]>>)

(***************************************************************************)
(* A pass with nothing to write                                            *)
(***************************************************************************)

\* a load started now runs the materialization pass
PassDue == now - lastRecurringCheck >= oneDay

\* the dates the pass considers for the template on line t: the next two
\* occurrences that are not after tomorrow
Candidates(content, t, today) ==
    LET occ == calculateNextOccurrences(parseTaskLine(content[t], t - 1), 2, today)
    IN  {occ[k] : k \in {j \in 1..Len(occ) : ParseDate(occ[j]) <= today + 1}}

\* every candidate date of every template has an instance in the content
AllPersisted(content, today) ==
    \A t \in 1..Len(content) : IsTemplateLine(content, t) =>
        \A d \in Candidates(content, t, today) : InstancesFor(content, t, d) # {}

\* C30: when every candidate date of every template has a persisted
\* instance, or there is no candidate, a load that runs the pass writes
\* nothing: the content is the same and no 'modify' event is raised
C30_NothingToWrite ==
    PassDue /\ AllPersisted(store, Today) =>
        LoadEnds.store = store /\ LoadEnds.modified = 0

\* a day after the pass that wrote them, the pass is due again and the one
\* candidate of the template (its end date is reached) is in the file
C30_Witness ==
    /\ PassDue /\ lastRecurringCheck > 0
    /\ AllPersisted(store, Today)
    /\ \E t \in 1..Len(store) :
          IsTemplateLine(store, t) /\ Candidates(store, t, Today) # {}

(***************************************************************************)
(* The first occurrence the editor creates                                 *)
(***************************************************************************)

\* the template the Save wrote: the line of the list's task i in the content
SavedTemplate(content, i) == content[tasks[i].lineNumber + 1].f

\* the instance lines of the content, done or to do, with the identity of
\* the template and its due date
FirstOccurrenceLines(content, template) ==
    {k \in 1..Len(content) :
        /\ content[k].kind = "task" /\ ~content[k].f.isRecurring
        /\ content[k].f.taskName = template.taskName
        /\ content[k].f.project = template.project
        /\ content[k].f.section = template.section
        /\ content[k].f.dueDate = template.dueDate}

\* C31: a Save of the recurring editor on a template leaves exactly one
\* instance of the template for the first-occurrence date (the due date the
\* Save writes on the template), whether or not one existed before the Save
C31_OneFirstOccurrence ==
    [][\A i \in ListedTemplates : \A settings \in EditorSettings :
          SaveRecurring(i, settings) /\ SavedTemplate(store', i).dueDate # Null
          => Cardinality(FirstOccurrenceLines(store', SavedTemplate(store', i))) = 1]_vars

(***************************************************************************)
(* Un-completing a record                                                  *)
(***************************************************************************)

\* the done records of the list that came out of a completion: instance
\* records with a line in the file and a template in the list (one whose
\* interval is at least 1: an interval of 0 is C19's case)
DoneInstances ==
    {i \in 1..Len(tasks) :
        /\ tasks[i].status = "done" /\ ~tasks[i].isRecurring /\ tasks[i].dueDate # Null
        /\ tasks[i].lineNumber >= 0 /\ tasks[i].lineNumber < Len(store)
        /\ FindTemplate(tasks, tasks[i]) # Null
        /\ FindTemplate(tasks, tasks[i])[1].recurringPattern # Null
        /\ FindTemplate(tasks, tasks[i])[1].recurringPattern[1].interval >= 1}

\* the file after toggleTask on the done record i
Uncompleted(i) == ToggleLines(store, tasks, tasks[i])

\* the file after the record is completed again from the list loaded after
\* its un-completion
CompletedAgain(i) ==
    LET Again(lines) ==
            ToggleLines(lines, parseTasks(lines), [tasks[i] EXCEPT !.status = "todo"])
    IN  Again(Uncompleted(i))

\* C32: un-completing a done record changes only the status of its line, and
\* completing it again adds no instance for a next date that already has one
C32_UncompleteInPlace ==
    watching /\ ~pending =>
        \A i \in DoneInstances :
            /\ Uncompleted(i) = [store EXCEPT ![tasks[i].lineNumber + 1] = MarkTodo(@)]
            /\ \A d \in {NextAfter(i)} :
                   d # Null /\ Persisted(store, tasks[i], d[1]) # {}
                   => Cardinality(Persisted(CompletedAgain(i), tasks[i], d[1]))
                        <= Cardinality(Persisted(store, tasks[i], d[1]))

(***************************************************************************)
(* The completed record of a virtual occurrence                            *)
(***************************************************************************)

\* the virtual occurrences still to do of the templates whose interval is at
\* least 1 (an interval of 0 is C19's case)
OpenVirtuals ==
    {i \in ListedVirtuals :
        /\ tasks[i].status = "todo" /\ tasks[i].dueDate # Null
        /\ tasks[i].recurringPattern # Null
        /\ tasks[i].recurringPattern[1].interval >= 1}

\* C33: completing a virtual occurrence leaves a done record for its date in
\* the file, also when there is no next occurrence after it
C33_CompletedRecordKept ==
    watching /\ ~pending =>
        \A i \in OpenVirtuals :
            Records(ToggleLines(store, tasks, tasks[i]), tasks[i], tasks[i].dueDate[1], "done") # {}

(***************************************************************************)
(* The first date of a rule with interval 1                                *)
(***************************************************************************)

\* the rule carries a non-empty constraint of its own unit
OwnConstraint(task, unit) ==
    \/ unit = "week"  /\ HasValues(task.recurringWDay)
    \/ unit = "month" /\ HasValues(task.recurringDay)
    \/ unit = "year"  /\ HasValues(task.recurringMonth)

\* calculateNextOccurrences(rule, 1) returned for a rule with interval 1 and
\* a constraint of its own unit, and of no other
FirstAsked ==
    /\ Returned /\ calc.fn = "occ" /\ IsRule
    /\ calc.count = 1 /\ calc.interval = 1
    /\ OwnConstraint(calc.task[1], calc.unit)
    /\ ~Mismatched(calc.task[1], calc.unit)

\* C34: for a rule with interval 1, calculateNextOccurrences(rule, 1) returns
\* the earliest date at or after max(start, today) that satisfies the
\* constraint, when that date is not after the end date
C34_EarliestMatch ==
    FirstAsked =>
        \A d \in FirstPossible(calc.task[1], calc.unit, calc.today) :
            WithinEnd(d) => calc.occurrences = <<formatDate(d)>>

(***************************************************************************)
(* The two functions give the same series                                  *)
(***************************************************************************)

\* the constraint field has at most one value
AtMostOne(field) == field = Null \/ Cardinality(field[1]) <= 1

\* calculateNextOccurrences returned for a rule with an interval of at least
\* 1 (an interval of 0 is C19's case) and at most one constraint value
SeriesReturned ==
    /\ Returned /\ calc.fn = "occ" /\ IsRule
    /\ calc.interval >= 1
    /\ AtMostOne(calc.task[1].recurringWDay)
    /\ AtMostOne(calc.task[1].recurringDay)
    /\ AtMostOne(calc.task[1].recurringMonth)

\* C35: for a rule with at most one constraint value, every date d that
\* calculateNextOccurrences returns with a date after it has that date as
\* calculateNextOccurrenceAfterDate(rule, d)
C35_SameSeries ==
    SeriesReturned =>
        \A k \in 1..(Len(calc.occurrences) - 1) :
            calculateNextOccurrenceAfterDate(calc.task[1], calc.occurrences[k])
                = Some(calc.occurrences[k + 1])

(***************************************************************************)
(* Templates with the same name                                            *)
(***************************************************************************)

\* the content after a materialization pass on a fresh parse of it
AfterPass(content, today) == content \o PassAppends(content, today)

\* C36: after a materialization pass every candidate date of every template
\* has an instance with the template's own name, project and section: an
\* instance of a template with the same name in another project does not
\* stand for it
C36_PerIdentity == AllPersisted(AfterPass(store, Today), Today)

(***************************************************************************)
(* Writes of interleaved handlers                                          *)
(***************************************************************************)

\* the completed records of the content
DoneLines(content) ==
    {k \in 1..Len(content) : content[k].kind = "task" /\ content[k].f.status = "done"}

\* handler k is a toggleTask on a done record, about to write
Uncompleting(k) == handlers[k].pc = "tog_read" /\ handlers[k].task[1].status = "done"

\* the step leaves in the file every record that was in it: no completed
\* record goes away and no (identity, date) has fewer instance records
KeepsRecords ==
    /\ Cardinality(DoneLines(store')) >= Cardinality(DoneLines(store))
    /\ \A j \in 1..Len(store) : IsInstanceLine(store, j) =>
           Cardinality(InstanceLines(store', Unchecked(store[j])))
             >= Cardinality(InstanceLines(store, Unchecked(store[j])))

\* C37: no write of a handler, toggleTask or the materialization pass, takes
\* out of the file what another handler wrote since this one read it: apart
\* from an un-completion, which turns one done record into a todo record,
\* every step keeps the completed records and the instances of the file
C37_NoLostWrite ==
    [][\A k \in 1..Len(handlers) : ConcStep(k) /\ ~Uncompleting(k) => KeepsRecords]_vars

(***************************************************************************)
(* The list that interleaved loads leave                                   *)
(***************************************************************************)

\* tasks v and u of the list have the same name, project, section and date
SameOccurrence(taskList, v, u) ==
    /\ taskList[v].taskName = taskList[u].taskName
    /\ taskList[v].project = taskList[u].project
    /\ taskList[v].section = taskList[u].section
    /\ taskList[v].dueDate = taskList[u].dueDate

\* the persisted instances of the list: parsed from a line, not a template
ParsedInstances(taskList) ==
    {u \in 1..Len(taskList) :
        /\ ~taskList[u].isRecurring /\ taskList[u].lineNumber >= 0
        /\ taskList[u].dueDate # Null}

\* C38: when the interleaved handlers have all returned, the list holds no
\* two virtual occurrences of one template for one date, and no virtual
\* occurrence for a date for which it holds a persisted instance
C38_VirtualsUnique ==
    handlers = <<>> =>
        \A v \in Virtuals(tasks) :
            /\ \A u \in Virtuals(tasks) : SameOccurrence(tasks, v, u) => u = v
            /\ \A u \in ParsedInstances(tasks) : ~SameOccurrence(tasks, v, u)

(***************************************************************************)
(* The record a completion marks                                           *)
(***************************************************************************)

\* handler k is a toggleTask completing a materialized instance (a task
\* parsed from a line that is not a template), about to write
CompletingRecord(k) ==
    /\ handlers[k].pc = "tog_read"
    /\ handlers[k].task[1].status = "todo"
    /\ ~handlers[k].task[1].isRecurring
    /\ handlers[k].task[1].lineNumber >= 0

\* the line of the content read at the line number of the selected task is
\* the record of that task
SelectedRecordRead(h) ==
    /\ h.task[1].lineNumber >= 0 /\ h.task[1].lineNumber < Len(h.content)
    /\ h.content[h.task[1].lineNumber + 1].kind = "task"
    /\ parseTaskLine(h.content[h.task[1].lineNumber + 1], h.task[1].lineNumber) = h.task[1]

\* C39: a completion of a materialized task marks done the record of the
\* task selected, whatever was written to the file after the list that holds
\* the task's line number was loaded: the line toggleTask takes out and
\* appends as done is the line the selected task was parsed from
C39_MarksSelected ==
    [][\A k \in 1..Len(handlers) :
           ConcStep(k) /\ CompletingRecord(k) => SelectedRecordRead(handlers[k])]_vars

====
